---------------------------- MODULE Spec2Model ----------------------------
(***************************************************************************)
(* Model of EnhancedAIService (src/src/services/enhancedAiService.ts):     *)
(* the retry scheduler retryWithBackoff, the response parse section of     *)
(* analyzeScreenshot / analyzeCryptoScreenshot and the two record          *)
(* assemblers validateAndCleanExtractedData / validateAndCleanCryptoData.  *)
(*                                                                         *)
(* Text is modelled as a sequence of one-character strings, so that the    *)
(* regular expressions, trim, includes and JSON.parse of the source are    *)
(* computed character by character.                                        *)
(***************************************************************************)
EXTENDS Integers, Sequences, FiniteSets, TLC

VARIABLES
    caller,      \* who runs: "direct" (retryWithBackoff alone), "forex", "crypto", "earlier", "chat", "chatHttp"
    maxRetries,  \* retryWithBackoff parameter
    baseDelay,   \* retryWithBackoff parameter (ms)
    attempt,     \* loop variable of retryWithBackoff
    pc,          \* position of the running call
    calls,       \* number of invocations of operation()
    sleeps,      \* delays (ms) handed to setTimeout, in order
    errors,      \* errors operation() rejected with, in order
    settled,     \* how retryWithBackoff settled
    reply,       \* how analyzeScreenshot / analyzeCryptoScreenshot settled
    raw,         \* the parsed object handed to an assembler
    out,         \* what the assembler produced
    host,        \* the host environment: current year and Date parser of the engine
    response,    \* the model response of an analysis call: the body and its wrapping
    legPc,       \* getAllMarketData: where each of the four fetches stands
    legSeen,     \* the outcomes of the provider requests of each fetch, in order
    legOut,      \* what each fetch resolved with
    snapshot,    \* how getAllMarketData settled
    searchPc,    \* fetchMarketData: where the call stands
    searchSeen,  \* the outcome of the search request
    contentSeen, \* the outcome of the content request of each search result
    enriched,    \* what the callback of each search result resolved with
    marketData,  \* how fetchMarketData settled
    chatSeen,    \* a chat request: how the reads and the enrichment went
    parked       \* the local variables of a second call, which waits while this one runs

\* the variables of the analysis service and those of the market data service
aiVars == <<caller, maxRetries, baseDelay, attempt, pc, calls, sleeps, errors,
            settled, reply, raw, out, host, response, chatSeen, parked>>
marketVars == <<legPc, legSeen, legOut, snapshot>>
searchVars == <<searchPc, searchSeen, contentSeen, enriched, marketData>>

vars == <<aiVars, marketVars, searchVars>>

-----------------------------------------------------------------------------
(* Bounds of the model *)

\* largest maxRetries a direct call of retryWithBackoff is given
MaxAttemptsBound == 4

(* Program constants *)

DefaultMaxRetries == 3
DefaultBaseDelay == 1000
JitterRange == 1000

-----------------------------------------------------------------------------
(* Text helpers: String.prototype.includes / startsWith / trim *)

\* s[i..j], empty when j < i
Slice(s, i, j) == IF j < i THEN <<>> ELSE SubSeq(s, i, j)

\* does sub occur in s at position i (1-based)
MatchAt(s, sub, i) ==
    /\ i >= 1
    /\ i + Len(sub) - 1 <= Len(s)
    /\ \A k \in 1..Len(sub) : s[i + k - 1] = sub[k]

Includes(s, sub) == \E i \in 1..(Len(s) + 1) : MatchAt(s, sub, i)

StartsWith(s, sub) == MatchAt(s, sub, 1)

\* the whitespace characters that occur in the modelled texts
WhiteSpace == {" ", "\n", "\t"}

IsSpace(c) == c \in WhiteSpace

Trim(s) ==
    LET keep == {i \in 1..Len(s) : ~IsSpace(s[i])}
    IN  IF keep = {} THEN <<>>
        ELSE LET lo == CHOOSE i \in keep : \A k \in keep : i <= k
                 hi == CHOOSE i \in keep : \A k \in keep : i >= k
             IN  SubSeq(s, lo, hi)

-----------------------------------------------------------------------------
(* Errors.  An Error object has an optional message; a provider error may  *)
(* carry an HTTP status next to it (status 0: no status property).         *)

MkError(hasMessage, message, status) ==
    [hasMessage |-> hasMessage, message |-> message, status |-> status]

Err429 == MkError(TRUE, <<"[", "4", "2", "9", "]">>, 429)
ErrQuota == MkError(TRUE, <<"q", "u", "o", "t", "a", " ", "h", "i", "t">>, 0)
ErrStatusOnly == MkError(TRUE, <<"T", "o", "o", " ", "M", "a", "n", "y">>, 429)
ErrAuth == MkError(TRUE, <<"b", "a", "d", " ", "k", "e", "y">>, 401)
ErrNoMessage == MkError(FALSE, <<>>, 0)

ErrMaxRetries == MkError(TRUE, <<"M", "a", "x", " ", "r", "e", "t", "r", "i", "e", "s">>, 0)

\* mutant: the 'quota' test is dropped
IsQuotaErrorOnly429(e) ==
    e.hasMessage /\ Includes(e.message, <<"4", "2", "9">>)

\* error.message?.includes('429') || error.message?.includes('quota')
IsQuotaError(e) ==
    \/ e.hasMessage /\ Includes(e.message, <<"4", "2", "9">>)
    \/ e.hasMessage /\ Includes(e.message, <<"q", "u", "o", "t", "a">>)

-----------------------------------------------------------------------------
(* Outcomes of a call *)

Pending == [kind |-> "pending"]
Returned(v) == [kind |-> "value", v |-> v]
Thrown(e) == [kind |-> "error", e |-> e]


-----------------------------------------------------------------------------
(* retryWithBackoff *)

\* what operation() may reject with
OperationErrors(c) ==
    IF c = "direct"
    THEN {Err429, ErrQuota, ErrStatusOnly, ErrAuth, ErrNoMessage}
    ELSE {Err429, ErrAuth}

\* draws of Math.random() * 1000, a value of [0, 1000)
JitterDraws(c) ==
    IF c = "direct" THEN {0, JitterRange \div 2, JitterRange - 1} ELSE {0}

BaseDelays == {0, 500, DefaultBaseDelay, 2 * DefaultBaseDelay}

Pow2(n) == 2 ^ n

\* mutant: the delay is halved, not doubled, from one attempt to the next
RetryDelayHalving(base, att, jitter) == (base \div Pow2(att - 1)) + jitter

\* mutant: the exponent is attempt, not attempt - 1
RetryDelayOffByOne(base, att, jitter) == base * Pow2(att) + jitter

\* baseDelay * Math.pow(2, attempt - 1) + Math.random() * 1000
RetryDelay(base, att, jitter) == base * Pow2(att - 1) + jitter

\* mutant: the loop test is attempt < maxRetries
EnterLoopOffByOne(att) ==
    /\ attempt' = att
    /\ IF att < maxRetries
       THEN /\ calls' = calls + 1
            /\ pc' = "awaitOperation"
            /\ settled' = settled
       ELSE /\ calls' = calls
            /\ pc' = "settled"
            /\ settled' = Thrown(ErrMaxRetries)

\* the head of the for loop: test attempt <= maxRetries, then call operation()
\* or leave the loop and throw 'Max retries exceeded'
EnterLoop(att) ==
    /\ attempt' = att
    /\ IF att <= maxRetries
       THEN /\ calls' = calls + 1
            /\ pc' = "awaitOperation"
            /\ settled' = settled
       ELSE /\ calls' = calls
            /\ pc' = "settled"
            /\ settled' = Thrown(ErrMaxRetries)

\* a direct call of retryWithBackoff begins
RetryStart ==
    /\ pc = "start"
    /\ caller = "direct"
    /\ EnterLoop(1)
    /\ UNCHANGED <<caller, maxRetries, baseDelay, sleeps, errors, reply, raw, out, host, marketVars, searchVars, parked, chatSeen, response>>

\* mutant: at the last attempt the generic error replaces the caught one
CatchErrorGeneric(e) ==
    IF attempt = maxRetries
    THEN /\ settled' = Thrown(ErrMaxRetries)
         /\ pc' = "settled"
         /\ sleeps' = sleeps
    ELSE IF IsQuotaError(e)
    THEN /\ \E r \in JitterDraws(caller) :
              sleeps' = Append(sleeps, RetryDelay(baseDelay, attempt, r))
         /\ pc' = "sleeping"
         /\ settled' = settled
    ELSE /\ settled' = Thrown(e)
         /\ pc' = "settled"
         /\ sleeps' = sleeps

\* mutant: every error is retried, whatever its message
CatchErrorRetryAll(e) ==
    IF attempt = maxRetries
    THEN /\ settled' = Thrown(e)
         /\ pc' = "settled"
         /\ sleeps' = sleeps
    ELSE /\ \E r \in JitterDraws(caller) :
              sleeps' = Append(sleeps, RetryDelay(baseDelay, attempt, r))
         /\ pc' = "sleeping"
         /\ settled' = settled

\* mutant: the attempt === maxRetries test is missing
CatchErrorNoCap(e) ==
    IF IsQuotaError(e)
    THEN /\ \E r \in JitterDraws(caller) :
              sleeps' = Append(sleeps, RetryDelay(baseDelay, attempt, r))
         /\ pc' = "sleeping"
         /\ settled' = settled
    ELSE /\ settled' = Thrown(e)
         /\ pc' = "settled"
         /\ sleeps' = sleeps

\* the catch block of retryWithBackoff
CatchError(e) ==
    IF attempt = maxRetries
    THEN /\ settled' = Thrown(e)
         /\ pc' = "settled"
         /\ sleeps' = sleeps
    ELSE IF IsQuotaError(e)
    THEN /\ \E r \in JitterDraws(caller) :
              sleeps' = Append(sleeps, RetryDelay(baseDelay, attempt, r))
         /\ pc' = "sleeping"
         /\ settled' = settled
    ELSE /\ settled' = Thrown(e)
         /\ pc' = "settled"
         /\ sleeps' = sleeps

\* operation() rejects: the catch block runs up to its throw or its setTimeout
OperationRejects ==
    /\ pc = "awaitOperation"
    /\ \E e \in OperationErrors(caller) :
          /\ errors' = Append(errors, e)
          /\ CatchError(e)
    /\ UNCHANGED <<caller, maxRetries, baseDelay, attempt, calls, reply, raw, out, host, marketVars, searchVars, parked, chatSeen, response>>

\* the timer of the backoff sleep fires: continue, attempt++, loop head
TimerFires ==
    /\ pc = "sleeping"
    /\ EnterLoop(attempt + 1)
    /\ UNCHANGED <<caller, maxRetries, baseDelay, sleeps, errors, reply, raw, out, host, marketVars, searchVars, parked, chatSeen, response>>

\* what operation() may resolve with, when retryWithBackoff is called directly
DirectValues == {<<"o", "k">>}

\* operation() resolves: return await operation()
OperationResolvesDirect ==
    /\ pc = "awaitOperation"
    /\ caller = "direct"
    /\ \E v \in DirectValues : settled' = Returned(v)
    /\ pc' = "settled"
    /\ UNCHANGED <<caller, maxRetries, baseDelay, attempt, calls, sleeps, errors,
                   reply, raw, out, host, marketVars, searchVars, parked, chatSeen, response>>

NoObject == <<>>

NoResponse == [body |-> <<>>, wrap |-> "none"]

\* no chat request is under way
NoChat == [sessions |-> "none", trades |-> "none", enrichment |-> "none"]

ChatIdle == chatSeen = NoChat

\* there is no second call
NoCall == [id |-> 0]

NoSecondCall == parked = NoCall

\* the four fetches of getAllMarketData
Legs == {"crypto", "gold", "fearGreed", "news"}

\* no market data call is under way
MarketIdle ==
    /\ legPc = [l \in Legs |-> "idle"]
    /\ legSeen = [l \in Legs |-> <<>>]
    /\ legOut = [l \in Legs |-> Pending]
    /\ snapshot = Pending

\* no search call is under way
SearchIdle ==
    /\ searchPc = "idle"
    /\ searchSeen = <<>>
    /\ contentSeen = <<>>
    /\ enriched = <<>>
    /\ marketData = Pending

\* the host of a run in which no date is read
DefaultHost == [year |-> 2024, engine |-> "rollover"]

InitRetry ==
    /\ caller = "direct"
    /\ maxRetries \in (-1)..MaxAttemptsBound
    /\ baseDelay \in BaseDelays
    /\ attempt = 0
    /\ pc = "start"
    /\ calls = 0
    /\ sleeps = <<>>
    /\ errors = <<>>
    /\ settled = Pending
    /\ reply = Pending
    /\ raw = NoObject
    /\ out = Pending
    /\ host = DefaultHost
    /\ response = NoResponse
    /\ MarketIdle
    /\ SearchIdle
    /\ ChatIdle
    /\ NoSecondCall

NextRetry ==
    \/ RetryStart
    \/ OperationResolvesDirect
    \/ OperationRejects
    \/ TimerFires

SpecRetry == InitRetry /\ [][NextRetry]_vars

\* every await of retryWithBackoff settles: operation() by assumption, the
\* timer because setTimeout fires
SpecRetryFair == SpecRetry /\ WF_vars(NextRetry)

-----------------------------------------------------------------------------
(* Claims about retryWithBackoff *)

\* C1: a failure of attempt k < maxRetries whose error does not carry the
\* rate-limit signature is re-raised at once: that error is what the call
\* fails with, operation() was invoked k times and never again, and no sleep
\* follows the failure (k - 1 sleeps in all; one invocation and no sleep
\* for k = 1).
C1_NonQuotaRaisedAtOnce ==
    \A k \in 1..Len(errors) :
        (maxRetries >= 2 /\ k < maxRetries /\ ~IsQuotaError(errors[k])) =>
            /\ pc = "settled"
            /\ settled = Thrown(errors[k])
            /\ Len(errors) = k
            /\ calls = k
            /\ Len(sleeps) = k - 1

C1_Witness ==
    /\ maxRetries = 3
    /\ Len(errors) = 2
    /\ IsQuotaError(errors[1])
    /\ errors[2] = ErrAuth
    /\ pc = "settled"

\* C2: when operation() fails with the rate-limit signature on attempts
\* 1..maxRetries-1 and the call is over without a further failure, the call
\* returned the value of attempt maxRetries, after exactly maxRetries
\* invocations and one sleep between each two consecutive attempts.
C2_SucceedsOnLastAttempt ==
    ( /\ maxRetries >= 1
      /\ pc = "settled"
      /\ Len(errors) = maxRetries - 1
      /\ \A k \in 1..Len(errors) : IsQuotaError(errors[k]) ) =>
        /\ settled.kind = "value"
        /\ settled.v \in DirectValues
        /\ calls = maxRetries
        /\ Len(sleeps) = calls - 1

C2_Witness ==
    /\ maxRetries = 3
    /\ pc = "settled"
    /\ settled.kind = "value"
    /\ Len(errors) = 2
    /\ calls = 3

\* C3 as stated: for every baseDelay >= 0 the delays of one call never
\* decrease from one sleep to the next.
C3_DelaysNonDecreasingAnyBase ==
    \A k \in 1..(Len(sleeps) - 1) : sleeps[k + 1] >= sleeps[k]

\* C3 amended: for every baseDelay >= 1000 (the default included) the delays
\* of one call never decrease from one sleep to the next, whatever the
\* jitter draws.
C3_DelaysNonDecreasing ==
    baseDelay >= JitterRange =>
        \A k \in 1..(Len(sleeps) - 1) : sleeps[k + 1] >= sleeps[k]

C3_Witness ==
    /\ baseDelay = DefaultBaseDelay
    /\ Len(sleeps) >= 2
    /\ sleeps[1] = baseDelay + (JitterRange - 1)
    /\ sleeps[2] = 2 * baseDelay

\* C4: the call terminates, operation() is invoked at most maxRetries times,
\* and when attempt number maxRetries fails the call fails with the error of
\* that attempt, with no sleep after it, rate-limit error or not.
C4_StateOk ==
    /\ calls <= (IF maxRetries >= 0 THEN maxRetries ELSE 0)
    /\ (maxRetries >= 1 /\ Len(errors) = maxRetries) =>
            /\ pc = "settled"
            /\ settled = Thrown(errors[maxRetries])
            /\ Len(sleeps) = maxRetries - 1

C4_TerminatesWithFinalError == [](C4_StateOk) /\ <>(pc = "settled")

C4_Witness ==
    /\ maxRetries = 3
    /\ Len(errors) = 3
    /\ errors[1] = ErrQuota
    /\ errors[3] = Err429
    /\ pc = "settled"

\* the rate-limit signature as C5 states it: a too-many-requests status on
\* the error, or a quota-exhaustion message
C5_StatedSignature(e) ==
    \/ e.status = 429
    \/ e.hasMessage /\ Includes(e.message, <<"q", "u", "o", "t", "a">>)

\* the signature of the amended C5: the message text contains '429' or 'quota'
C5_MessageSignature(e) ==
    /\ e.hasMessage
    /\ \/ \E i \in 1..Len(e.message) : MatchAt(e.message, <<"4", "2", "9">>, i)
       \/ \E i \in 1..Len(e.message) : MatchAt(e.message, <<"q", "u", "o", "t", "a">>, i)

C5_Retried(k) ==
    /\ Len(sleeps) >= k
    /\ \/ calls > k
       \/ pc = "sleeping" /\ calls = k /\ Len(errors) = k

\* C5 as stated: every error with a 429 status or a quota message raised on
\* an attempt before maxRetries is followed by a sleep and a new invocation.
C5_StatusOrQuotaRetried ==
    \A k \in 1..Len(errors) :
        (k < maxRetries /\ C5_StatedSignature(errors[k])) => C5_Retried(k)

\* C5 amended: an error is retryable when its message text contains '429' or
\* 'quota'; every such error raised on an attempt before maxRetries is
\* followed by a sleep and a new invocation (a 429 status alone, with neither
\* substring in the message, is not retried).
C5_MessageMatchRetried ==
    \A k \in 1..Len(errors) :
        (k < maxRetries /\ C5_MessageSignature(errors[k])) => C5_Retried(k)

C5_Witness ==
    /\ maxRetries = 3
    /\ Len(errors) >= 2
    /\ errors[1] = Err429
    /\ errors[2] = ErrQuota
    /\ calls = 3

\* C6: the sleep after a retryable failure of attempt k lasts between
\* baseDelay * 2^(k-1) and baseDelay * 2^(k-1) + 1000 ms; with the defaults
\* (3 attempts, 1000 ms) there are at most two sleeps, the first within
\* [1000, 2000] and the second within [2000, 3000].
C6_DelayWithinBounds ==
    /\ \A k \in 1..Len(sleeps) :
          /\ baseDelay * (2 ^ (k - 1)) <= sleeps[k]
          /\ sleeps[k] <= baseDelay * (2 ^ (k - 1)) + 1000
    /\ (maxRetries = 3 /\ baseDelay = 1000) =>
          /\ Len(sleeps) <= 2
          /\ Len(sleeps) >= 1 => (1000 <= sleeps[1] /\ sleeps[1] <= 2000)
          /\ Len(sleeps) >= 2 => (2000 <= sleeps[2] /\ sleeps[2] <= 3000)

C6_Witness ==
    /\ maxRetries = 3
    /\ baseDelay = 1000
    /\ Len(sleeps) = 2
    /\ sleeps[2] > 2000

-----------------------------------------------------------------------------
(* JavaScript values.  A number is m / 10^e in lowest decimal form (inf is  *)
(* 1 or -1 for the infinities), so that equal numbers are equal records; an *)
(* object is a function from its keys (texts) to values.                    *)

Undef == [t |-> "undefined"]
Null == [t |-> "null"]
Bool(b) == [t |-> "boolean", b |-> b]
Str(s) == [t |-> "string", s |-> s]
Arr(items) == [t |-> "array", a |-> items]
Obj(fields) == [t |-> "object", o |-> fields]

RECURSIVE Canon(_, _)
\* m / 10^e without trailing zeros in the fraction
Canon(m, e) ==
    IF e > 0 /\ m % 10 = 0 THEN Canon(m \div 10, e - 1)
    ELSE [t |-> "number", m |-> m, e |-> e, inf |-> 0]

Num(m, e) == Canon(m, e)
IntNum(n) == Num(n, 0)
Infinity(sign) == [t |-> "number", m |-> 0, e |-> 0, inf |-> sign]
NaN == [t |-> "number", m |-> 0, e |-> 0, inf |-> 2]

IsNaNValue(v) == v.t = "number" /\ v.inf = 2

\* the thrown TypeError of a call of a method the value does not have
TypeErrorThrown == [t |-> "throw"]

Digits == <<"0", "1", "2", "3", "4", "5", "6", "7", "8", "9">>
DigitChars == {Digits[i] : i \in 1..10}
IsDigit(c) == c \in DigitChars
DigitVal(c) == (CHOOSE i \in 1..10 : Digits[i] = c) - 1

RECURSIVE NatToChars(_)
NatToChars(n) ==
    IF n < 10 THEN <<Digits[n + 1]>>
    ELSE NatToChars(n \div 10) \o <<Digits[(n % 10) + 1]>>

RECURSIVE Zeros(_)
Zeros(n) == IF n <= 0 THEN <<>> ELSE <<"0">> \o Zeros(n - 1)

Abs(n) == IF n < 0 THEN -n ELSE n

\* the digits of the mantissa, with zeros before them when the fraction is
\* longer than they are
PadToFraction(ds, e) == IF Len(ds) <= e THEN Zeros(e - Len(ds) + 1) \o ds ELSE ds

\* sign, whole part, and the fraction after a point when there is one
SignedDecimal(v, padded) ==
    (IF v.m < 0 THEN <<"-">> ELSE <<>>)
    \o Slice(padded, 1, Len(padded) - v.e)
    \o (IF v.e > 0 THEN <<".">> \o Slice(padded, Len(padded) - v.e + 1, Len(padded)) ELSE <<>>)

\* Number.prototype.toString for the decimals of the model
NumToChars(v) ==
    IF v.inf = 2 THEN <<"N", "a", "N">>
    ELSE IF v.inf = 1 THEN <<"I", "n", "f", "i", "n", "i", "t", "y">>
    ELSE IF v.inf = -1 THEN <<"-", "I", "n", "f", "i", "n", "i", "t", "y">>
    ELSE SignedDecimal(v, PadToFraction(NatToChars(Abs(v.m)), v.e))

RECURSIVE ToStr(_)
RECURSIVE JoinItems(_, _)
\* Array.prototype.join(','): null and undefined items give the empty text
JoinItems(items, i) ==
    IF i > Len(items) THEN <<>>
    ELSE (IF i > 1 THEN <<",">> ELSE <<>>)
         \o (IF items[i].t \in {"null", "undefined"} THEN <<>> ELSE ToStr(items[i]))
         \o JoinItems(items, i + 1)

\* value.toString() / String(value), for a value that is neither null nor undefined
ToStr(v) ==
    CASE v.t = "string" -> v.s
      [] v.t = "number" -> NumToChars(v)
      [] v.t = "boolean" -> IF v.b THEN <<"t", "r", "u", "e">> ELSE <<"f", "a", "l", "s", "e">>
      [] v.t = "array" -> JoinItems(v.a, 1)
      [] v.t = "object" -> <<"[", "o", "b", "j", "e", "c", "t", " ", "O", "b", "j", "e", "c", "t", "]">>
      [] v.t = "null" -> <<"n", "u", "l", "l">>
      [] v.t = "undefined" -> <<"u", "n", "d", "e", "f", "i", "n", "e", "d">>

\* ToBoolean
Truthy(v) ==
    CASE v.t = "undefined" -> FALSE
      [] v.t = "null" -> FALSE
      [] v.t = "boolean" -> v.b
      [] v.t = "number" -> ~(v.inf = 2) /\ ~(v.inf = 0 /\ v.m = 0)
      [] v.t = "string" -> v.s # <<>>
      [] v.t = "array" -> TRUE
      [] v.t = "object" -> TRUE

\* a || undefined
OrUndefined(v) == IF Truthy(v) THEN v ELSE Undef

\* data.key: the property read throws on null and undefined; a primitive or
\* an array has none of the keys the assemblers read
GetProp(data, key) ==
    CASE data.t \in {"null", "undefined"} -> TypeErrorThrown
      [] data.t = "object" -> IF key \in DOMAIN data.o THEN data.o[key] ELSE Undef
      [] OTHER -> Undef

UpperCase == <<"A", "B", "C", "D", "E", "F", "G", "H", "I", "J", "K", "L", "M",
               "N", "O", "P", "Q", "R", "S", "T", "U", "V", "W", "X", "Y", "Z">>
LowerCase == <<"a", "b", "c", "d", "e", "f", "g", "h", "i", "j", "k", "l", "m",
               "n", "o", "p", "q", "r", "s", "t", "u", "v", "w", "x", "y", "z">>

LowerChar(c) ==
    IF \E i \in 1..26 : UpperCase[i] = c
    THEN LowerCase[CHOOSE i \in 1..26 : UpperCase[i] = c]
    ELSE c

UpperChar(c) ==
    IF \E i \in 1..26 : LowerCase[i] = c
    THEN UpperCase[CHOOSE i \in 1..26 : LowerCase[i] = c]
    ELSE c

\* String.prototype.toLowerCase
ToLowerCase(s) == [i \in 1..Len(s) |-> LowerChar(s[i])]

\* \w of a regular expression
IsWordChar(c) ==
    \/ IsDigit(c)
    \/ c = "_"
    \/ \E i \in 1..26 : UpperCase[i] = c \/ LowerCase[i] = c

\* s with every character of the set removed: replace(/[...]/g, '')
RemoveChars(s, set) == SelectSeq(s, LAMBDA c : c \notin set)

-----------------------------------------------------------------------------
(* Reading a decimal number from text: parseFloat and Number(text) *)

RECURSIVE DigitRunEnd(_, _)
\* the first position from i on that holds no digit
DigitRunEnd(s, i) ==
    IF i <= Len(s) /\ IsDigit(s[i]) THEN DigitRunEnd(s, i + 1) ELSE i

RECURSIVE DigitsValue(_, _, _)
\* the number written by the digits among s[i..j]
DigitsValue(s, i, j) ==
    IF j < i THEN 0
    ELSE IF IsDigit(s[j]) THEN DigitsValue(s, i, j - 1) * 10 + DigitVal(s[j])
    ELSE DigitsValue(s, i, j - 1)

CharAt(s, i) == IF i >= 1 /\ i <= Len(s) THEN s[i] ELSE ""

\* StrDecimalLiteral read from position i0: sign, digits, fraction, exponent.
\* next is the position after the longest prefix that is a literal.
ScanDecimal(s, i0) ==
    LET neg == CharAt(s, i0) = "-"
        i1 == IF CharAt(s, i0) \in {"+", "-"} THEN i0 + 1 ELSE i0
        aEnd == DigitRunEnd(s, i1)
        hasDot == CharAt(s, aEnd) = "."
        bEnd == IF hasDot THEN DigitRunEnd(s, aEnd + 1) ELSE aEnd
        fracDigits == IF hasDot THEN bEnd - (aEnd + 1) ELSE 0
        intDigits == aEnd - i1
        hasExpMark == CharAt(s, bEnd) \in {"e", "E"}
        x0 == bEnd + 1
        expNeg == CharAt(s, x0) = "-"
        x1 == IF CharAt(s, x0) \in {"+", "-"} THEN x0 + 1 ELSE x0
        xEnd == DigitRunEnd(s, x1)
        hasExp == hasExpMark /\ xEnd > x1
        expVal == IF hasExp THEN DigitsValue(s, x1, xEnd - 1) ELSE 0
        digitsVal == DigitsValue(s, i1, bEnd - 1)
        mant == IF neg THEN -digitsVal ELSE digitsVal
        shift == IF expNeg THEN fracDigits + expVal ELSE fracDigits - expVal
    IN  IF MatchAt(s, <<"I", "n", "f", "i", "n", "i", "t", "y">>, i1)
        THEN [ok |-> TRUE, v |-> Infinity(IF neg THEN -1 ELSE 1), next |-> i1 + 8]
        ELSE IF intDigits + fracDigits = 0
        THEN [ok |-> FALSE, v |-> NaN, next |-> i0]
        ELSE [ok |-> TRUE,
              v |-> IF shift >= 0 THEN Num(mant, shift) ELSE Num(mant * (10 ^ (-shift)), 0),
              next |-> IF hasExp THEN xEnd ELSE bEnd]

RECURSIVE SkipSpaces(_, _)
SkipSpaces(s, i) == IF i <= Len(s) /\ IsSpace(s[i]) THEN SkipSpaces(s, i + 1) ELSE i

\* parseFloat(text): the longest numeric prefix after leading white space, else NaN
ParseFloat(s) == ScanDecimal(s, SkipSpaces(s, 1)).v

HexChars == DigitChars \cup {"a", "b", "c", "d", "e", "f", "A", "B", "C", "D", "E", "F"}

\* is the trimmed text t, whose decimal scan is d, no numeric literal
LiteralIsNaN(t, d) ==
    ~ \/ t = <<>>
      \/ d.ok /\ d.next = Len(t) + 1
      \/ /\ Len(t) >= 3
         /\ t[1] = "0"
         /\ \/ t[2] \in {"x", "X"} /\ \A i \in 3..Len(t) : t[i] \in HexChars
            \/ t[2] \in {"o", "O"} /\ \A i \in 3..Len(t) : t[i] \in {"0", "1", "2", "3", "4", "5", "6", "7"}
            \/ t[2] \in {"b", "B"} /\ \A i \in 3..Len(t) : t[i] \in {"0", "1"}

TrimmedIsNaN(t) == LiteralIsNaN(t, ScanDecimal(t, 1))

\* is Number(text) NaN: the whole trimmed text must be a numeric literal
\* (decimal, infinity, or 0x / 0o / 0b digits); the empty text is 0
StringIsNaN(s) == TrimmedIsNaN(Trim(s))

\* isNaN(value): Number(value) is NaN; a string is read as it is, an array
\* through its toString
IsNaNOf(v) ==
    CASE v.t = "undefined" -> TRUE
      [] v.t = "null" -> FALSE
      [] v.t = "boolean" -> FALSE
      [] v.t = "number" -> v.inf = 2
      [] v.t \in {"string", "array"} -> StringIsNaN(ToStr(v))
      [] v.t = "object" -> TRUE

AllDigitChars(s) == s # <<>> /\ \A i \in 1..Len(s) : IsDigit(s[i])

\* /^\d+$/.test(value): the value is converted to text first
AllDigits(v) == AllDigitChars(ToStr(v))

-----------------------------------------------------------------------------
(* parseNumber *)

\* the characters of /[$€£¥+\s]/; the three non-ASCII currency signs are
\* written "EUR", "GBP", "JPY" and stand for one character each
CurrencyAndSpace == {"$", "EUR", "GBP", "JPY", "+"} \cup WhiteSpace

\* if (numStr.includes('(') && numStr.includes(')')) numStr = '-' + numStr.replace(/[()]/g, '')
NegateParens(numStr) ==
    IF Includes(numStr, <<"(">>) /\ Includes(numStr, <<")">>)
    THEN <<"-">> \o RemoveChars(numStr, {"(", ")"})
    ELSE numStr

\* isNaN(parsed) ? undefined : parsed
NumberOrUndefined(parsed) == IF IsNaNValue(parsed) THEN Undef ELSE parsed

\* mutant: commas are not removed before parseFloat
ParseNumberKeepCommas(value) ==
    IF value.t \in {"null", "undefined"} \/ value = Str(<<>>) THEN Undef
    ELSE NumberOrUndefined(ParseFloat(NegateParens(
             RemoveChars(Trim(ToStr(value)), CurrencyAndSpace))))

parseNumber(value) ==
    IF value.t \in {"null", "undefined"} \/ value = Str(<<>>) THEN Undef
    ELSE NumberOrUndefined(ParseFloat(NegateParens(
             RemoveChars(RemoveChars(Trim(ToStr(value)), {","}), CurrencyAndSpace))))

-----------------------------------------------------------------------------
(* normalizePosition, the same text in both assemblers, and normalizeReason. *)
(* A call of toLowerCase on a value that is no string throws a TypeError.    *)

\* mutant: the test for 'closed' or 'complete' comes before the prefix test
PositionOfTextClosedFirst(lowerStatus) ==
    IF lowerStatus = <<"o", "p", "e", "n">> THEN Str(<<"O", "p", "e", "n">>)
    ELSE IF Includes(lowerStatus, <<"c", "l", "o", "s", "e", "d">>) \/ Includes(lowerStatus, <<"c", "o", "m", "p", "l", "e", "t", "e">>)
    THEN Str(<<"C", "l", "o", "s", "e", "d">>)
    ELSE IF StartsWith(lowerStatus, <<"o", "p", "e", "n">>) THEN Str(<<"O", "p", "e", "n">>)
    ELSE Undef

\* the comparisons of normalizePosition on the lowered, trimmed text
PositionOfText(lowerStatus) ==
    IF lowerStatus = <<"o", "p", "e", "n">> THEN Str(<<"O", "p", "e", "n">>)
    ELSE IF lowerStatus \in {<<"c", "l", "o", "s", "e", "d">>, <<"a", "l", "l", " ", "c", "l", "o", "s", "e", "d">>, <<"c", "o", "m", "p", "l", "e", "t", "e", "d">>, <<"c", "o", "m", "p", "l", "e", "t", "e">>}
    THEN Str(<<"C", "l", "o", "s", "e", "d">>)
    ELSE IF StartsWith(lowerStatus, <<"o", "p", "e", "n">>) THEN Str(<<"O", "p", "e", "n">>)
    ELSE IF Includes(lowerStatus, <<"c", "l", "o", "s", "e", "d">>) \/ Includes(lowerStatus, <<"c", "o", "m", "p", "l", "e", "t", "e">>)
    THEN Str(<<"C", "l", "o", "s", "e", "d">>)
    ELSE Undef

\* mutant: the test for a number or an ID is left out
NormalizePositionNoIdTest(status) ==
    IF ~Truthy(status) THEN Undef
    ELSE IF status.t # "string" THEN TypeErrorThrown
    ELSE PositionOfText(Trim(ToLowerCase(status.s)))

normalizePosition(status) ==
    IF ~Truthy(status) THEN Undef
    ELSE IF ~IsNaNOf(status) \/ AllDigits(status) THEN Undef
    ELSE IF status.t # "string" THEN TypeErrorThrown
    ELSE PositionOfText(Trim(ToLowerCase(status.s)))

\* the comparisons of normalizeReason on the lowered, trimmed text
ReasonOfText(lowerReason) ==
    IF lowerReason = <<"t", "p">> THEN Str(<<"T", "P">>)
    ELSE IF lowerReason = <<"s", "l">> THEN Str(<<"S", "L">>)
    ELSE IF lowerReason = <<"e", "a", "r", "l", "y", " ", "c", "l", "o", "s", "e">> THEN Str(<<"E", "a", "r", "l", "y", " ", "C", "l", "o", "s", "e">>)
    ELSE IF Includes(lowerReason, <<"t", "a", "k", "e", " ", "p", "r", "o", "f", "i", "t">>) \/ Includes(lowerReason, <<"t", "p">>)
    THEN Str(<<"T", "P">>)
    ELSE IF Includes(lowerReason, <<"s", "t", "o", "p", " ", "l", "o", "s", "s">>) \/ Includes(lowerReason, <<"s", "l">>)
    THEN Str(<<"S", "L">>)
    ELSE IF Includes(lowerReason, <<"e", "a", "r", "l", "y">>) /\ Includes(lowerReason, <<"c", "l", "o", "s">>)
    THEN Str(<<"E", "a", "r", "l", "y", " ", "C", "l", "o", "s", "e">>)
    ELSE Str(<<"O", "t", "h", "e", "r">>)

normalizeReason(reason) ==
    IF ~Truthy(reason) THEN Undef
    ELSE IF reason.t # "string" THEN TypeErrorThrown
    ELSE ReasonOfText(Trim(ToLowerCase(reason.s)))

-----------------------------------------------------------------------------
(* parseDateTime.  The environment gives the current year and the Date       *)
(* parser of the engine: for a day past the end of its month (Feb 30) an     *)
(* engine either rolls over into the next month ("rollover", V8) or answers  *)
(* Invalid Date ("strict").  Text that is no ISO date-time ending in Z is    *)
(* read as Invalid Date by the model's parser.                               *)

IsLeap(y) == (y % 4 = 0 /\ y % 100 # 0) \/ y % 400 = 0

DaysInMonth(y, mo) ==
    IF mo = 2 THEN (IF IsLeap(y) THEN 29 ELSE 28)
    ELSE IF mo \in {4, 6, 9, 11} THEN 30 ELSE 31

InvalidDate == [valid |-> FALSE]

Instant(y, mo, d, h, mi, s, ms) ==
    [valid |-> TRUE, y |-> y, mo |-> mo, d |-> d, h |-> h, mi |-> mi, s |-> s, ms |-> ms]

\* the instant one day after the start of day d of month mo
NextDayStart(y, mo, d) ==
    IF d < DaysInMonth(y, mo) THEN Instant(y, mo, d + 1, 0, 0, 0, 0)
    ELSE IF mo < 12 THEN Instant(y, mo + 1, 1, 0, 0, 0, 0)
    ELSE Instant(y + 1, 1, 1, 0, 0, 0, 0)

\* the calendar fields of an ISO date-time, made an instant or Invalid Date
MakeDate(engine, y, mo, d, h, mi, s, ms) ==
    IF ~ /\ mo \in 1..12
         /\ d \in 1..31
         /\ mi \in 0..59
         /\ s \in 0..59
         /\ h \in 0..23 \/ (h = 24 /\ mi = 0 /\ s = 0 /\ ms = 0)
    THEN InvalidDate
    ELSE IF d > DaysInMonth(y, mo)
    THEN IF engine = "strict" \/ mo = 12 \/ h = 24 THEN InvalidDate
         ELSE Instant(y, mo + 1, d - DaysInMonth(y, mo), h, mi, s, ms)
    ELSE IF h = 24 THEN NextDayStart(y, mo, d)
    ELSE Instant(y, mo, d, h, mi, s, ms)

AllDigitsAt(s, i, n) == \A k \in i..(i + n - 1) : IsDigit(CharAt(s, k))

\* new Date(text) for text of the form YYYY-MM-DDTHH:MM:SS[.mmm]Z
DateParse(engine, s) ==
    LET hasMs == CharAt(s, 20) = "."
        zAt == IF hasMs THEN 24 ELSE 20
    IN  IF /\ Len(s) = zAt
           /\ AllDigitsAt(s, 1, 4) /\ s[5] = "-"
           /\ AllDigitsAt(s, 6, 2) /\ s[8] = "-"
           /\ AllDigitsAt(s, 9, 2) /\ s[11] = "T"
           /\ AllDigitsAt(s, 12, 2) /\ s[14] = ":"
           /\ AllDigitsAt(s, 15, 2) /\ s[17] = ":"
           /\ AllDigitsAt(s, 18, 2)
           /\ hasMs => AllDigitsAt(s, 21, 3)
           /\ s[zAt] = "Z"
        THEN MakeDate(engine, DigitsValue(s, 1, 4), DigitsValue(s, 6, 7),
                      DigitsValue(s, 9, 10), DigitsValue(s, 12, 13),
                      DigitsValue(s, 15, 16), DigitsValue(s, 18, 19),
                      IF hasMs THEN DigitsValue(s, 21, 23) ELSE 0)
        ELSE InvalidDate

\* String.prototype.padStart(n, '0') of the digits of a number
PadNum(k, n) ==
    LET ds == NatToChars(k) IN Zeros(n - Len(ds)) \o ds

PadStart2(s) == Zeros(2 - Len(s)) \o s

\* Date.prototype.toISOString
ToISOString(dt) ==
    PadNum(dt.y, 4) \o <<"-">> \o PadNum(dt.mo, 2) \o <<"-">> \o PadNum(dt.d, 2)
    \o <<"T">> \o PadNum(dt.h, 2) \o <<":">> \o PadNum(dt.mi, 2) \o <<":">>
    \o PadNum(dt.s, 2) \o <<".">> \o PadNum(dt.ms, 3) \o <<"Z">>

\* isNaN(date.getTime()) ? undefined : date.toISOString()
IsoOrUndefined(dt) == IF dt.valid THEN Str(ToISOString(dt)) ELSE Undef

monthMap == <<<<"J", "a", "n">>, <<"F", "e", "b">>, <<"M", "a", "r">>, <<"A", "p", "r">>, <<"M", "a", "y">>, <<"J", "u", "n">>,
              <<"J", "u", "l">>, <<"A", "u", "g">>, <<"S", "e", "p">>, <<"O", "c", "t">>, <<"N", "o", "v">>, <<"D", "e", "c">>>>

\* the end of a run of one or more white space from i, or 0 when there is none
SpacesEnd(s, i) == IF IsSpace(CharAt(s, i)) THEN SkipSpaces(s, i) ELSE 0

\* \d{1,2} followed by the character c: the position of c, or 0
OneOrTwoDigitsThen(s, i, c) ==
    IF IsDigit(CharAt(s, i)) /\ IsDigit(CharAt(s, i + 1)) /\ CharAt(s, i + 2) = c THEN i + 2
    ELSE IF IsDigit(CharAt(s, i)) /\ CharAt(s, i + 1) = c THEN i + 1
    ELSE 0

\* /(\w{3})\s+(\d{1,2}),\s+(\d{1,2}):(\d{2}):(\d{2})\s+(AM|PM)/i tried at position p
DatePatternAt(s, p) ==
    LET a == SpacesEnd(s, p + 3)                    \* start of the day
        comma == IF a = 0 THEN 0 ELSE OneOrTwoDigitsThen(s, a, ",")
        b == IF comma = 0 THEN 0 ELSE SpacesEnd(s, comma + 1)   \* start of the hour
        colon == IF b = 0 THEN 0 ELSE OneOrTwoDigitsThen(s, b, ":")
        tail == IF colon = 0 THEN 0
                ELSE IF /\ AllDigitsAt(s, colon + 1, 2) /\ CharAt(s, colon + 3) = ":"
                        /\ AllDigitsAt(s, colon + 4, 2)
                THEN SpacesEnd(s, colon + 6) ELSE 0     \* start of AM / PM
        ok == /\ \A k \in p..(p + 2) : IsWordChar(CharAt(s, k))
              /\ tail # 0
              /\ UpperChar(CharAt(s, tail)) \in {"A", "P"}
              /\ UpperChar(CharAt(s, tail + 1)) = "M"
    IN  IF ok
        THEN [ok |-> TRUE, monthName |-> SubSeq(s, p, p + 2),
              day |-> SubSeq(s, a, comma - 1), hour |-> SubSeq(s, b, colon - 1),
              minute |-> SubSeq(s, colon + 1, colon + 2),
              second |-> SubSeq(s, colon + 4, colon + 5),
              ampm |-> <<UpperChar(s[tail]), "M">>]
        ELSE [ok |-> FALSE]

\* mutant: every PM hour is moved by twelve, noon too
Hour24NoonMoved(hour, ampm) ==
    IF ampm = <<"P", "M">> THEN hour + 12
    ELSE IF ampm = <<"A", "M">> /\ hour = 12 THEN 0
    ELSE hour

\* the 24-hour value of a 12-hour clock reading
Hour24(hour, ampm) ==
    IF ampm = <<"P", "M">> /\ hour # 12 THEN hour + 12
    ELSE IF ampm = <<"A", "M">> /\ hour = 12 THEN 0
    ELSE hour

\* dateStr.match(pattern): the leftmost match, starts being the positions
\* where the pattern matches
LeftmostMatch(dateStr, starts) ==
    IF starts = {} THEN [ok |-> FALSE]
    ELSE DatePatternAt(dateStr, CHOOSE p \in starts : \A q \in starts : p <= q)

DateMatch(dateStr) ==
    LeftmostMatch(dateStr, {p \in 1..Len(dateStr) : DatePatternAt(dateStr, p).ok})

\* monthMap[monthName]: the numbers of the months of that name (one or none)
MonthsNamed(monthName) == {i \in 1..12 : monthMap[i] = monthName}

\* the ISO text built from the year of the clock and the groups of the match
IsoString(year, month, day, hour24, minute, second) ==
    PadNum(year, 4) \o <<"-">> \o PadNum(month, 2) \o <<"-">>
    \o PadStart2(day) \o <<"T">> \o PadStart2(NatToChars(hour24)) \o <<":">>
    \o minute \o <<":">> \o second \o <<"Z">>

\* the screenshot format when it matches and the month is known, else the
\* fallback to standard parsing
ParseDateMatch(env, dateStr, match) ==
    IF match.ok /\ MonthsNamed(match.monthName) # {}
    THEN IsoOrUndefined(DateParse(env.engine,
             IsoString(env.year, CHOOSE i \in MonthsNamed(match.monthName) : TRUE, match.day,
                       Hour24(DigitsValue(match.hour, 1, Len(match.hour)), match.ampm),
                       match.minute, match.second)))
    ELSE IsoOrUndefined(DateParse(env.engine, dateStr))

ParseDateText(env, dateStr) ==
    IF Includes(dateStr, <<"T">>) /\ Includes(dateStr, <<"-">>)
    THEN IsoOrUndefined(DateParse(env.engine, dateStr))
    ELSE ParseDateMatch(env, dateStr, DateMatch(dateStr))

parseDateTime(env, value) ==
    IF ~Truthy(value) THEN Undef
    ELSE ParseDateText(env, Trim(ToStr(value)))

-----------------------------------------------------------------------------
(* The assemblers.  A record is a function from field names to values; a    *)
(* field holding undefined is absent.                                       *)

\* the TypeError of reading a property of null, or of calling toLowerCase on
\* a value that has no such method
ErrTypeError == MkError(TRUE, <<"i", "s", " ", "n", "o", "t", " ", "a", " ", "f", "u", "n", "c", "t", "i", "o", "n">>, 0)

ForexKeys == {<<"s", "y", "m", "b", "o", "l">>, <<"t", "y", "p", "e">>, <<"v", "o", "l", "u", "m", "e", "L", "o", "t">>, <<"o", "p", "e", "n", "P", "r", "i", "c", "e">>, <<"c", "l", "o", "s", "e", "P", "r", "i", "c", "e">>,
              <<"t", "p">>, <<"s", "l">>, <<"p", "o", "s", "i", "t", "i", "o", "n">>, <<"o", "p", "e", "n", "T", "i", "m", "e">>, <<"c", "l", "o", "s", "e", "T", "i", "m", "e">>,
              <<"r", "e", "a", "s", "o", "n">>, <<"p", "n", "l", "U", "s", "d">>}

\* the keys validateAndCleanCryptoData reads: position is read when status
\* is missing or falsy
CryptoKeys == {<<"f", "u", "t", "u", "r", "e", "s", "S", "y", "m", "b", "o", "l">>, <<"m", "a", "r", "g", "i", "n", "M", "o", "d", "e">>, <<"a", "v", "g", "C", "l", "o", "s", "e", "P", "r", "i", "c", "e">>, <<"d", "i", "r", "e", "c", "t", "i", "o", "n">>,
               <<"m", "a", "r", "g", "i", "n", "A", "d", "j", "u", "s", "t", "m", "e", "n", "t", "H", "i", "s", "t", "o", "r", "y">>, <<"c", "l", "o", "s", "e", "T", "i", "m", "e">>, <<"c", "l", "o", "s", "i", "n", "g", "Q", "u", "a", "n", "t", "i", "t", "y">>,
               <<"s", "t", "a", "t", "u", "s">>, <<"r", "e", "a", "l", "i", "z", "e", "d", "P", "n", "l">>, <<"o", "p", "e", "n", "T", "i", "m", "e">>, <<"a", "v", "g", "E", "n", "t", "r", "y", "P", "r", "i", "c", "e">>,
               <<"p", "o", "s", "i", "t", "i", "o", "n">>}

\* the record is returned unless a normalizer threw while it was built
RecordOrThrow(cleanData) ==
    IF \E f \in DOMAIN cleanData : cleanData[f] = TypeErrorThrown
    THEN Thrown(ErrTypeError)
    ELSE Returned(cleanData)

validateAndCleanExtractedData(env, data) ==
    IF data.t \in {"null", "undefined"} THEN Thrown(ErrTypeError)
    ELSE RecordOrThrow(
                 [symbol |-> OrUndefined(GetProp(data, <<"s", "y", "m", "b", "o", "l">>)),
                  type |-> OrUndefined(GetProp(data, <<"t", "y", "p", "e">>)),
                  volumeLot |-> parseNumber(GetProp(data, <<"v", "o", "l", "u", "m", "e", "L", "o", "t">>)),
                  openPrice |-> parseNumber(GetProp(data, <<"o", "p", "e", "n", "P", "r", "i", "c", "e">>)),
                  closePrice |-> parseNumber(GetProp(data, <<"c", "l", "o", "s", "e", "P", "r", "i", "c", "e">>)),
                  tp |-> parseNumber(GetProp(data, <<"t", "p">>)),
                  sl |-> parseNumber(GetProp(data, <<"s", "l">>)),
                  position |-> normalizePosition(GetProp(data, <<"p", "o", "s", "i", "t", "i", "o", "n">>)),
                  openTime |-> parseDateTime(env, GetProp(data, <<"o", "p", "e", "n", "T", "i", "m", "e">>)),
                  closeTime |-> parseDateTime(env, GetProp(data, <<"c", "l", "o", "s", "e", "T", "i", "m", "e">>)),
                  reason |-> normalizeReason(GetProp(data, <<"r", "e", "a", "s", "o", "n">>)),
                  pnlUsd |-> parseNumber(GetProp(data, <<"p", "n", "l", "U", "s", "d">>))])

\* mutant: the two sides are exchanged
SideOfDirectionSwapped(direction) ==
    IF direction = Str(<<"L", "o", "n", "g">>) THEN Str(<<"S", "e", "l", "l">>)
    ELSE IF direction = Str(<<"S", "h", "o", "r", "t">>) THEN Str(<<"B", "u", "y">>)
    ELSE Undef

\* mutant: every direction that is not 'Long' is a sell
SideOfDirectionDefaultSell(direction) ==
    IF direction = Str(<<"L", "o", "n", "g">>) THEN Str(<<"B", "u", "y">>) ELSE Str(<<"S", "e", "l", "l">>)

\* data.direction === 'Long' ? 'Buy' : data.direction === 'Short' ? 'Sell' : undefined
SideOfDirection(direction) ==
    IF direction = Str(<<"L", "o", "n", "g">>) THEN Str(<<"B", "u", "y">>)
    ELSE IF direction = Str(<<"S", "h", "o", "r", "t">>) THEN Str(<<"S", "e", "l", "l">>)
    ELSE Undef

\* if (data.status) { data.position = data.status; delete data.status }
\* followed by the read of data.position
PositionAfterStatusMove(data) ==
    IF Truthy(GetProp(data, <<"s", "t", "a", "t", "u", "s">>))
    THEN GetProp(data, <<"s", "t", "a", "t", "u", "s">>)
    ELSE GetProp(data, <<"p", "o", "s", "i", "t", "i", "o", "n">>)

validateAndCleanCryptoData(env, data) ==
    IF data.t \in {"null", "undefined"} THEN Thrown(ErrTypeError)
    ELSE RecordOrThrow(
                 [futuresSymbol |-> OrUndefined(GetProp(data, <<"f", "u", "t", "u", "r", "e", "s", "S", "y", "m", "b", "o", "l">>)),
                  marginMode |-> OrUndefined(GetProp(data, <<"m", "a", "r", "g", "i", "n", "M", "o", "d", "e">>)),
                  avgClosePrice |-> parseNumber(GetProp(data, <<"a", "v", "g", "C", "l", "o", "s", "e", "P", "r", "i", "c", "e">>)),
                  direction |-> OrUndefined(GetProp(data, <<"d", "i", "r", "e", "c", "t", "i", "o", "n">>)),
                  marginAdjustmentHistory |->
                      OrUndefined(GetProp(data, <<"m", "a", "r", "g", "i", "n", "A", "d", "j", "u", "s", "t", "m", "e", "n", "t", "H", "i", "s", "t", "o", "r", "y">>)),
                  closeTime |-> parseDateTime(env, GetProp(data, <<"c", "l", "o", "s", "e", "T", "i", "m", "e">>)),
                  closingQuantity |-> parseNumber(GetProp(data, <<"c", "l", "o", "s", "i", "n", "g", "Q", "u", "a", "n", "t", "i", "t", "y">>)),
                  realizedPnl |-> parseNumber(GetProp(data, <<"r", "e", "a", "l", "i", "z", "e", "d", "P", "n", "l">>)),
                  openTime |-> parseDateTime(env, GetProp(data, <<"o", "p", "e", "n", "T", "i", "m", "e">>)),
                  avgEntryPrice |-> parseNumber(GetProp(data, <<"a", "v", "g", "E", "n", "t", "r", "y", "P", "r", "i", "c", "e">>)),
                  symbol |-> OrUndefined(GetProp(data, <<"f", "u", "t", "u", "r", "e", "s", "S", "y", "m", "b", "o", "l">>)),
                  type |-> SideOfDirection(GetProp(data, <<"d", "i", "r", "e", "c", "t", "i", "o", "n">>)),
                  openPrice |-> parseNumber(GetProp(data, <<"a", "v", "g", "E", "n", "t", "r", "y", "P", "r", "i", "c", "e">>)),
                  closePrice |-> parseNumber(GetProp(data, <<"a", "v", "g", "C", "l", "o", "s", "e", "P", "r", "i", "c", "e">>)),
                  pnlUsd |-> parseNumber(GetProp(data, <<"r", "e", "a", "l", "i", "z", "e", "d", "P", "n", "l">>)),
                  volumeLot |-> parseNumber(GetProp(data, <<"c", "l", "o", "s", "i", "n", "g", "Q", "u", "a", "n", "t", "i", "t", "y">>)),
                  position |-> normalizePosition(PositionAfterStatusMove(data))])

\* the assembler of a pipeline
Assemble(variant, env, data) ==
    IF variant = "forex" THEN validateAndCleanExtractedData(env, data)
    ELSE validateAndCleanCryptoData(env, data)

KeysRead(variant) == IF variant = "forex" THEN ForexKeys ELSE CryptoKeys

-----------------------------------------------------------------------------
(* The assemblers applied to parsed objects *)

\* raw field values of every JSON type
FieldValues ==
    {Null, Bool(TRUE), Bool(FALSE), IntNum(0), IntNum(5), Num(-15, 1), Infinity(1),
     Str(<<"0">>), Str(<<"0", "0", "7">>), Str(<<"l", "o", "n", "g">>),
     Str(<<"(", "4", "5", ".", "0", "0", ")">>), Str(<<"$", "1", ",", "2", "5", "0">>), Str(<<"4", "5", ".", "0", "0", " ", "U", "S", "D">>),
     Str(<<" ">>), Str(<<"S", "L">>), Str(<<"E", "a", "r", "l", "y", " ", "C", "l", "o", "s", "e">>), Str(<<"c", "l", "o", "s", "e", "d", " ", "e", "a", "r", "l", "y">>), Str(<<"t", "p", "/", "s", "l">>),
     Str(<<"S", "t", "o", "p", " ", "L", "o", "s", "s", " ", "h", "i", "t">>), Str(<<"m", "a", "n", "u", "a", "l">>), Str(<<" ", "T", "a", "k", "e", " ", "P", "r", "o", "f", "i", "t", " ">>),
     Str(<<"O", "p", "e", "n", " ", "p", "o", "s", "i", "t", "i", "o", "n", " ", "c", "l", "o", "s", "e", "d">>), Str(<<"A", "L", "L", " ", "C", "L", "O", "S", "E", "D">>), Str(<<"p", "a", "r", "t", "i", "a", "l", "l", "y", " ", "c", "l", "o", "s", "e", "d">>),
     Str(<<"i", "n", "c", "o", "m", "p", "l", "e", "t", "e">>), Str(<<"r", "e", "o", "p", "e", "n", "e", "d">>),
     Str(<<>>), Str(<<"O", "p", "e", "n">>), Str(<<"1", "0", "2", "3", "8", "4", "1">>), Str(<<"3", ",", "4", "0", "1", ".", "1", "8", "8">>),
     Str(<<"J", "u", "n", " ", "1", "6", ",", " ", "8", ":", "5", "0", ":", "5", "5", " ", "P", "M">>), Str(<<"t", "p">>), Str(<<"L", "o", "n", "g">>), Str(<<"S", "h", "o", "r", "t">>),
     Arr(<<>>), Arr(<<Str(<<"a">>)>>), Arr(<<IntNum(5)>>),
     Obj(<<>>), Obj(<<"a">> :> IntNum(1))}

ForexSample ==
    Obj(<<"s", "y", "m", "b", "o", "l">> :> Str(<<"X", "A", "U", "/", "U", "S", "D">>) @@ <<"t", "y", "p", "e">> :> Str(<<"B", "u", "y">>)
        @@ <<"v", "o", "l", "u", "m", "e", "L", "o", "t">> :> Num(1, 2) @@ <<"t", "p">> :> Str(<<"2", ",", "0", "6", "0", ".", "5">>)
        @@ <<"p", "o", "s", "i", "t", "i", "o", "n">> :> Str(<<"A", "l", "l", " ", "C", "l", "o", "s", "e", "d">>) @@ <<"r", "e", "a", "s", "o", "n">> :> Str(<<"S", "L">>)
        @@ <<"o", "p", "e", "n", "T", "i", "m", "e">> :> Str(<<"J", "u", "n", " ", "1", "6", ",", " ", "8", ":", "5", "0", ":", "5", "5", " ", "P", "M">>) @@ <<"p", "n", "l", "U", "s", "d">> :> Str(<<"(", "4", "5", ".", "0", "0", ")">>))

CryptoSample ==
    Obj(<<"f", "u", "t", "u", "r", "e", "s", "S", "y", "m", "b", "o", "l">> :> Str(<<"B", "T", "C", "U", "S", "D", "T">>) @@ <<"m", "a", "r", "g", "i", "n", "M", "o", "d", "e">> :> Str(<<"C", "r", "o", "s", "s">>)
        @@ <<"d", "i", "r", "e", "c", "t", "i", "o", "n">> :> Str(<<"S", "h", "o", "r", "t">>) @@ <<"s", "t", "a", "t", "u", "s">> :> Str(<<"C", "o", "m", "p", "l", "e", "t", "e", "d">>)
        @@ <<"a", "v", "g", "E", "n", "t", "r", "y", "P", "r", "i", "c", "e">> :> Str(<<"$", "1", ",", "2", "5", "0">>) @@ <<"r", "e", "a", "l", "i", "z", "e", "d", "P", "n", "l">> :> Num(-15, 1)
        @@ <<"c", "l", "o", "s", "e", "T", "i", "m", "e">> :> Str(<<"2", "0", "2", "4", "-", "0", "6", "-", "1", "6", "T", "2", "0", ":", "5", "0", ":", "5", "5", "Z">>))

\* objects that hold only keys no assembler reads
ForeignObjects ==
    {Obj(<<"n", "o", "t", "e">> :> v) : v \in FieldValues}
    \cup {Obj(<<"S", "y", "m", "b", "o", "l">> :> Str(<<"X", "A", "U", "/", "U", "S", "D">>) @@ <<"s", "i", "d", "e">> :> Str(<<"B", "u", "y">>))}

RawObjects ==
    {Obj(<<>>), ForexSample, CryptoSample}
    \cup ForeignObjects
    \cup {Obj(k :> v) : k \in ForexKeys \cup CryptoKeys, v \in FieldValues}

Hosts == {[year |-> y, engine |-> e] : y \in {2024, 2026}, e \in {"rollover", "strict"}}

\* an assembler is applied to a parsed object
AssembleRecord ==
    /\ pc = "assemble"
    /\ out' = Assemble(caller, host, raw)
    /\ pc' = "assembled"
    /\ UNCHANGED <<caller, maxRetries, baseDelay, attempt, calls, sleeps, errors,
                   settled, reply, raw, host, marketVars, searchVars, parked, chatSeen, response>>

InitAssemble ==
    /\ caller \in {"forex", "crypto"}
    /\ raw \in RawObjects
    /\ host \in Hosts
    /\ pc = "assemble"
    /\ out = Pending
    /\ maxRetries = DefaultMaxRetries
    /\ baseDelay = DefaultBaseDelay
    /\ attempt = 0
    /\ calls = 0
    /\ sleeps = <<>>
    /\ errors = <<>>
    /\ settled = Pending
    /\ reply = Pending
    /\ response = NoResponse
    /\ MarketIdle
    /\ SearchIdle
    /\ ChatIdle
    /\ NoSecondCall

NextAssemble == AssembleRecord

SpecAssemble == InitAssemble /\ [][NextAssemble]_vars

\* the fields of a record that are present
PresentFields(rec) == {f \in DOMAIN rec : rec[f] # Undef}

\* C7: an assembler never raises: whatever the type of each raw field value
\* of the parsed object, it returns a record.
C7_AssemblerNeverRaises ==
    pc = "assembled" => out.kind = "value"

\* C8: for both variants, a raw object that has none of the keys the
\* assembler reads yields a record in which every field is absent: nothing
\* is defaulted to zero, to the empty text or to an enum value.
C8_NoKeysAllAbsent ==
    (pc = "assembled" /\ DOMAIN raw.o \cap KeysRead(caller) = {}) =>
        /\ out.kind = "value"
        /\ PresentFields(out.v) = {}

C8_Witness ==
    /\ pc = "assembled"
    /\ caller = "crypto"
    /\ raw = Obj(<<"S", "y", "m", "b", "o", "l">> :> Str(<<"X", "A", "U", "/", "U", "S", "D">>) @@ <<"s", "i", "d", "e">> :> Str(<<"B", "u", "y">>))
    /\ out.kind = "value"

-----------------------------------------------------------------------------
(* JSON.parse.  A parse step answers [ok, v, next]: the value read and the   *)
(* position after it.  Texts hold no \u escapes.                             *)

JsonFail == [ok |-> FALSE, v |-> Undef, next |-> 0]
JsonOk(v, next) == [ok |-> TRUE, v |-> v, next |-> next]

JsonSpace == {" ", "\n", "\t", "\r"}

RECURSIVE SkipJsonSpace(_, _)
SkipJsonSpace(s, i) ==
    IF i <= Len(s) /\ s[i] \in JsonSpace THEN SkipJsonSpace(s, i + 1) ELSE i

RECURSIVE JsonStringBody(_, _, _)
\* the characters of a string from position i (after the opening quote) on;
\* acc holds the characters read so far
JsonStringBody(s, i, acc) ==
    IF i > Len(s) THEN JsonFail
    ELSE IF s[i] = "\"" THEN JsonOk(Str(acc), i + 1)
    ELSE IF s[i] \in {"\n", "\t", "\r"} THEN JsonFail
    ELSE IF s[i] = "\\"
    THEN IF CharAt(s, i + 1) \in {"\"", "\\", "/"}
         THEN JsonStringBody(s, i + 2, Append(acc, s[i + 1]))
         ELSE IF CharAt(s, i + 1) = "n" THEN JsonStringBody(s, i + 2, Append(acc, "\n"))
         ELSE IF CharAt(s, i + 1) = "t" THEN JsonStringBody(s, i + 2, Append(acc, "\t"))
         ELSE JsonFail
    ELSE JsonStringBody(s, i + 1, Append(acc, s[i]))

\* a JSON number at position i: no '+', no leading zero, digits after a point
JsonNumber(s, i) ==
    LET i1 == IF CharAt(s, i) = "-" THEN i + 1 ELSE i
        aEnd == DigitRunEnd(s, i1)
        d == ScanDecimal(s, i)
    IN  IF /\ IsDigit(CharAt(s, i1))
           /\ ~(s[i1] = "0" /\ IsDigit(CharAt(s, i1 + 1)))
           /\ CharAt(s, aEnd) = "." => IsDigit(CharAt(s, aEnd + 1))
        THEN JsonOk(d.v, d.next)
        ELSE JsonFail

RECURSIVE JsonValue(_, _)
RECURSIVE JsonMembers(_, _, _)
RECURSIVE JsonElements(_, _, _)

\* the members of an object from position i (a key is expected); a repeated
\* key keeps its last value
JsonMembers(s, i0, acc) ==
    LET i == SkipJsonSpace(s, i0)
        key == IF CharAt(s, i) = "\"" THEN JsonStringBody(s, i + 1, <<>>) ELSE JsonFail
        colon == IF key.ok THEN SkipJsonSpace(s, key.next) ELSE 0
        val == IF key.ok /\ CharAt(s, colon) = ":" THEN JsonValue(s, colon + 1) ELSE JsonFail
        after == IF val.ok THEN SkipJsonSpace(s, val.next) ELSE 0
        acc2 == IF val.ok THEN (key.v.s :> val.v) @@ acc ELSE acc
    IN  IF ~val.ok THEN JsonFail
        ELSE IF CharAt(s, after) = "," THEN JsonMembers(s, after + 1, acc2)
        ELSE IF CharAt(s, after) = "}" THEN JsonOk(Obj(acc2), after + 1)
        ELSE JsonFail

\* the elements of an array from position i (a value is expected)
JsonElements(s, i0, acc) ==
    LET val == JsonValue(s, i0)
        after == IF val.ok THEN SkipJsonSpace(s, val.next) ELSE 0
    IN  IF ~val.ok THEN JsonFail
        ELSE IF CharAt(s, after) = "," THEN JsonElements(s, after + 1, Append(acc, val.v))
        ELSE IF CharAt(s, after) = "]" THEN JsonOk(Arr(Append(acc, val.v)), after + 1)
        ELSE JsonFail

JsonValue(s, i0) ==
    LET i == SkipJsonSpace(s, i0)
        c == CharAt(s, i)
    IN  IF c = "{"
        THEN IF CharAt(s, SkipJsonSpace(s, i + 1)) = "}"
             THEN JsonOk(Obj(<<>>), SkipJsonSpace(s, i + 1) + 1)
             ELSE JsonMembers(s, i + 1, <<>>)
        ELSE IF c = "["
        THEN IF CharAt(s, SkipJsonSpace(s, i + 1)) = "]"
             THEN JsonOk(Arr(<<>>), SkipJsonSpace(s, i + 1) + 1)
             ELSE JsonElements(s, i + 1, <<>>)
        ELSE IF c = "\"" THEN JsonStringBody(s, i + 1, <<>>)
        ELSE IF MatchAt(s, <<"t", "r", "u", "e">>, i) THEN JsonOk(Bool(TRUE), i + 4)
        ELSE IF MatchAt(s, <<"f", "a", "l", "s", "e">>, i) THEN JsonOk(Bool(FALSE), i + 5)
        ELSE IF MatchAt(s, <<"n", "u", "l", "l">>, i) THEN JsonOk(Null, i + 4)
        ELSE JsonNumber(s, i)

\* JSON.parse(text): one value, white space around it, nothing else
WholeText(s, r) == IF r.ok /\ SkipJsonSpace(s, r.next) = Len(s) + 1 THEN r ELSE JsonFail

JsonParse(s) == WholeText(s, JsonValue(s, 1))

-----------------------------------------------------------------------------
(* The parse section of analyzeScreenshot / analyzeCryptoScreenshot *)

\* the backquote character is written "BQ"; a fence is three of them
Fence == <<"BQ", "BQ", "BQ">>
JsonFence == <<"BQ", "BQ", "BQ", "j", "s", "o", "n">>

\* the positions from i on where the marker occurs
MarkersFrom(s, marker, i) == {p \in i..Len(s) : MatchAt(s, marker, p)}

\* the position after the marker at p and the line feed that may follow it
AfterMarker(s, marker, p) ==
    IF CharAt(s, p + Len(marker)) = "\n" THEN p + Len(marker) + 1 ELSE p + Len(marker)

RECURSIVE ReplaceFence(_, _, _)
RECURSIVE ReplaceFenceAt(_, _, _, _)
\* the text from i up to the leftmost of the occurrences, then the rest
\* after that occurrence
ReplaceFenceAt(s, marker, i, found) ==
    IF found = {} THEN Slice(s, i, Len(s))
    ELSE Slice(s, i, (CHOOSE p \in found : \A q \in found : p <= q) - 1)
         \o ReplaceFence(s, marker,
                         AfterMarker(s, marker, CHOOSE p \in found : \A q \in found : p <= q))

\* text.replace(/<marker>\n?/g, ''): every occurrence of the marker, with the
\* line feed that follows it if there is one, is removed, left to right
ReplaceFence(s, marker, i) == ReplaceFenceAt(s, marker, i, MarkersFrom(s, marker, i))

\* text.trim() with the markdown fences removed
CleanText(text) == ReplaceFence(ReplaceFence(Trim(text), JsonFence, 1), Fence, 1)

NoMatch == [found |-> FALSE]

\* /<opening>\n([\s\S]*?)\n<fence>/: the leftmost opening fence that has a
\* closing line feed and fence after it, and the nearest such closing; whole is match[0], group
\* is match[1]
FencedBlock(text, opening) ==
    LET open == opening \o <<"\n">>
        close == <<"\n">> \o Fence
        closings(p) == {q \in (p + Len(open))..Len(text) : MatchAt(text, close, q)}
        starts == {p \in 1..Len(text) : MatchAt(text, open, p) /\ closings(p) # {}}
    IN  IF starts = {} THEN NoMatch
        ELSE LET p == CHOOSE x \in starts : \A y \in starts : x <= y
                 q == CHOOSE x \in closings(p) : \A y \in closings(p) : x <= y
             IN  [found |-> TRUE,
                  whole |-> SubSeq(text, p, q + Len(close) - 1),
                  group |-> Slice(text, p + Len(open), q - 1)]

\* /\{[\s\S]*\}/: from the first '{' that has a '}' after it to the last '}'
BraceSpan(text) ==
    LET closes == {q \in 1..Len(text) : text[q] = "}"}
        opens == {p \in 1..Len(text) : text[p] = "{" /\ \E q \in closes : q > p}
    IN  IF opens = {} THEN NoMatch
        ELSE LET p == CHOOSE x \in opens : \A y \in opens : x <= y
                 q == CHOOSE x \in closes : \A y \in closes : x >= y
             IN  [found |-> TRUE, whole |-> SubSeq(text, p, q), group |-> <<>>]

\* match[1] || match[0]
GroupOrWhole(m) == IF m.group # <<>> THEN m.group ELSE m.whole

ErrSyntax == MkError(TRUE, <<"U", "n", "e", "x", "p", "e", "c", "t", "e", "d", " ", "t", "o", "k", "e", "n">>, 0)
ErrNoJson == MkError(TRUE, <<"C", "o", "u", "l", "d", " ", "n", "o", "t", " ", "e", "x", "t", "r", "a", "c", "t", " ", "v", "a", "l", "i", "d", " ", "J", "S", "O", "N", " ", "f", "r", "o", "m", " ", "A", "I", " ", "r", "e", "s", "p", "o", "n", "s", "e">>, 0)

\* JSON.parse of the text, then the assembler of the pipeline
AssembleParsed(variant, env, parsed) ==
    IF parsed.ok THEN Assemble(variant, env, parsed.v) ELSE Thrown(ErrSyntax)

ParseAndAssemble(variant, env, jsonStr) == AssembleParsed(variant, env, JsonParse(jsonStr))

\* a returned record stands; after a failure the rest is tried
OrElse(r, rest) == IF r.kind = "value" THEN r ELSE rest

\* the patterns of the catch block, in their order
PatternMatches(text) ==
    <<FencedBlock(text, JsonFence), FencedBlock(text, Fence), BraceSpan(text)>>

RECURSIVE TryPatterns(_, _, _, _)
\* for (const pattern of patterns): the first match that parses and assembles
\* is returned; a failure is swallowed and the next pattern tried
TryPatterns(variant, env, matches, k) ==
    IF k > Len(matches) THEN Thrown(ErrNoJson)
    ELSE IF ~matches[k].found THEN TryPatterns(variant, env, matches, k + 1)
    ELSE OrElse(ParseAndAssemble(variant, env, Trim(GroupOrWhole(matches[k]))),
                TryPatterns(variant, env, matches, k + 1))

\* the inner try / catch: the cleaned text first, then the patterns on the
\* response text as it came
ExtractRecord(variant, env, text) ==
    OrElse(ParseAndAssemble(variant, env, CleanText(text)),
           TryPatterns(variant, env, PatternMatches(text), 1))

ErrHighDemand == MkError(TRUE, <<"A", "I", " ", "a", "n", "a", "l", "y", "s", "i", "s", " ", "i", "s", " ", "t", "e", "m", "p", "o", "r", "a", "r", "i", "l", "y", " ", "u", "n", "a", "v", "a", "i", "l", "a", "b", "l", "e", " ", "d", "u", "e", " ", "t", "o", " ", "h", "i", "g", "h", " ", "d", "e", "m", "a", "n", "d">>, 0)
ErrUnclearForex == MkError(TRUE, <<"F", "a", "i", "l", "e", "d", " ", "t", "o", " ", "a", "n", "a", "l", "y", "z", "e", " ", "s", "c", "r", "e", "e", "n", "s", "h", "o", "t">>, 0)
ErrUnclearCrypto == MkError(TRUE, <<"F", "a", "i", "l", "e", "d", " ", "t", "o", " ", "a", "n", "a", "l", "y", "z", "e", " ", "c", "r", "y", "p", "t", "o", " ", "s", "c", "r", "e", "e", "n", "s", "h", "o", "t">>, 0)

ErrUnclear(variant) == IF variant = "forex" THEN ErrUnclearForex ELSE ErrUnclearCrypto

\* the outer catch: a quota error becomes the high-demand error, every other
\* error the unclear-image error
OuterCatch(variant, outcome) ==
    IF outcome.kind = "value" THEN outcome
    ELSE IF IsQuotaError(outcome.e) THEN Thrown(ErrHighDemand)
    ELSE Thrown(ErrUnclear(variant))

\* what the analysis call settles with, given how retryWithBackoff settled
AnalysisOutcome(variant, env, retried) ==
    IF retried.kind = "error" THEN OuterCatch(variant, retried)
    ELSE OuterCatch(variant, ExtractRecord(variant, env, retried.v))

-----------------------------------------------------------------------------
(* analyzeScreenshot / analyzeCryptoScreenshot *)

\* texts of JSON objects a model response may hold
ObjectBodies ==
    {<<"{", "\"", "s", "y", "m", "b", "o", "l", "\"", ":", "\"", "X", "A", "U", "/", "U", "S", "D", "\"", ",", "\"", "t", "p", "\"", ":", "\"", "2", ",", "0", "6", "0", ".", "5", "\"", "}">>,
     <<"{", "}">>,
     <<"{", "\"", "s", "t", "a", "t", "u", "s", "\"", ":", " ", "\"", "O", "p", "e", "n", "\"", ",", " ", "\"", "d", "i", "r", "e", "c", "t", "i", "o", "n", "\"", ":", "\"", "L", "o", "n", "g", "\"", "}">>,
     <<"{", "\"", "n", "o", "t", "e", "\"", ":", "1", "}">>,
     <<"{", "\"", "r", "e", "a", "s", "o", "n", "\"", ":", "5", "}">>,
     <<"{", "\"", "s", "y", "m", "b", "o", "l", "\"", ":", "\"", "a", "BQ", "BQ", "BQ", "b", "\"", "}">>,
     <<"{", "\n", " ", "\"", "t", "p", "\"", ":", " ", "5", ",", "\n", " ", "\"", "x", "\"", ":", " ", "{", "\"", "y", "\"", ":", " ", "[", "1", "]", "}", "\n", "}">>}

\* the object of the forex scenario: a symbol, a side, a take profit written
\* with a thousands separator, and a position that is an order number
ScenarioBody == <<"{", "\"", "s", "y", "m", "b", "o", "l", "\"", ":", "\"", "X", "A", "U", "/", "U", "S", "D", "\"", ",", "\"", "t", "y", "p", "e", "\"", ":", "\"", "B", "u", "y", "\"", ",", "\"", "t", "p", "\"", ":", "\"", "2", ",", "0", "6", "0", ".", "5", "\"", ",", "\"", "p", "o", "s", "i", "t", "i", "o", "n", "\"", ":", "\"", "1", "0", "2", "3", "8", "4", "1", "\"", "}">>

\* texts that hold no JSON object
OtherBodies ==
    {<<"5">>, <<"\"", "h", "i", "\"">>, <<"t", "r", "u", "e">>, <<"[", "1", "]">>, <<"n", "u", "l", "l">>, <<"n", "o", " ", "t", "a", "b", "l", "e", " ", "h", "e", "r", "e">>,
     <<"{", "\"", "t", "p", "\"", ":", " ">>, <<>>}

Wrappings == {"bare", "jsonFence", "fence", "proseBefore", "proseAfter",
              "proseBoth", "braceProse", "proseJsonFence", "dataJsonFence",
              "noteFence"}

\* the response text made of a body and a wrapping
Wrap(body, wrap) ==
    CASE wrap = "bare" -> body
      [] wrap = "jsonFence" -> JsonFence \o <<"\n">> \o body \o <<"\n">> \o Fence
      [] wrap = "fence" -> Fence \o <<"\n">> \o body \o <<"\n">> \o Fence
      [] wrap = "proseBefore" -> <<"H", "e", "r", "e", ":", "\n">> \o body
      [] wrap = "proseAfter" -> body \o <<"\n", "D", "o", "n", "e", ".">>
      [] wrap = "proseBoth" -> <<"H", "e", "r", "e", ":", "\n">> \o body \o <<"\n", "D", "o", "n", "e", ".">>
      [] wrap = "braceProse" -> <<"U", "s", "e", " ", "{", "t", "p", "}", ":", "\n">> \o body
      [] wrap = "dataJsonFence" ->
            <<"H", "e", "r", "e", " ", "i", "s", " ", "t", "h", "e", " ", "d", "a", "t", "a", ":", "\n">> \o JsonFence \o <<"\n">> \o body \o <<"\n">> \o Fence
      [] wrap = "noteFence" ->
            Fence \o <<"\n", "s", "c", "r", "e", "e", "n", "s", "h", "o", "t", " ", "o", "f", " ", "a", " ", "t", "r", "a", "d", "e", "\n">> \o Fence \o <<"\n">> \o body
      [] wrap = "proseJsonFence" ->
            <<"H", "e", "r", "e", ":", "\n">> \o JsonFence \o <<"\n">> \o body \o <<"\n">> \o Fence

\* an analysis call begins: the image is read, then retryWithBackoff is
\* called with its default parameters
AnalyzeStart ==
    /\ pc = "start"
    /\ caller \in {"forex", "crypto"}
    /\ EnterLoop(1)
    /\ UNCHANGED <<caller, maxRetries, baseDelay, sleeps, errors, reply, raw, out,
                   host, marketVars, searchVars, parked, chatSeen, response>>

\* model.generateContent resolves with a response
ResolvesWithResponse(responses) ==
    /\ pc = "awaitOperation"
    /\ caller \in {"forex", "crypto"}
    /\ \E r \in responses :
          /\ response' = r
          /\ settled' = Returned(Wrap(r.body, r.wrap))
    /\ pc' = "settled"
    /\ UNCHANGED <<caller, maxRetries, baseDelay, attempt, calls, sleeps, errors,
                   reply, raw, out, host, marketVars, searchVars, parked, chatSeen>>

\* the responses of the model that are looked at
Responses == [body : ObjectBodies \cup {ScenarioBody} \cup OtherBodies, wrap : Wrappings]

OperationResolvesWithResponse == ResolvesWithResponse(Responses)

\* retryWithBackoff has settled: the response is parsed, or the error caught
AnalyzeSettle ==
    /\ pc = "settled"
    /\ caller \in {"forex", "crypto"}
    /\ reply' = AnalysisOutcome(caller, host, settled)
    /\ pc' = "replied"
    /\ UNCHANGED <<caller, maxRetries, baseDelay, attempt, calls, sleeps, errors,
                   settled, raw, out, host, marketVars, searchVars, parked, chatSeen, response>>

InitAnalyze ==
    /\ caller \in {"forex", "crypto"}
    /\ host \in Hosts
    /\ maxRetries = DefaultMaxRetries
    /\ baseDelay = DefaultBaseDelay
    /\ attempt = 0
    /\ pc = "start"
    /\ calls = 0
    /\ sleeps = <<>>
    /\ errors = <<>>
    /\ settled = Pending
    /\ reply = Pending
    /\ raw = NoObject
    /\ out = Pending
    /\ response = NoResponse
    /\ MarketIdle
    /\ SearchIdle
    /\ ChatIdle
    /\ NoSecondCall

NextAnalyze ==
    \/ AnalyzeStart
    \/ OperationResolvesWithResponse
    \/ OperationRejects
    \/ TimerFires
    \/ AnalyzeSettle

SpecAnalyze == InitAnalyze /\ [][NextAnalyze]_vars

-----------------------------------------------------------------------------
(* analyzeScreenshot of the earlier version of the service *)

\* text.match(/```json\n([\s\S]*?)\n```/) || text.match(/```\n([\s\S]*?)\n```/)
EarlierFencedBlock(text) ==
    IF FencedBlock(text, JsonFence).found THEN FencedBlock(text, JsonFence)
    ELSE FencedBlock(text, Fence)

\* return JSON.parse(...): the value read, or the SyntaxError
ParsedOrThrown(parsed) == IF parsed.ok THEN Returned(parsed.v) ELSE Thrown(ErrSyntax)

\* the catch block of the earlier version: a fenced block, when there is one,
\* decides; else the text from the first '{' to the last '}' does
EarlierCatch(text, fenced, braces) ==
    IF fenced.found THEN ParsedOrThrown(JsonParse(fenced.group))
    ELSE IF braces.found THEN ParsedOrThrown(JsonParse(braces.whole))
    ELSE Thrown(ErrNoJson)

\* the inner try / catch of the earlier version: the response text as it
\* came first
EarlierExtract(text) ==
    IF JsonParse(text).ok THEN Returned(JsonParse(text).v)
    ELSE EarlierCatch(text, EarlierFencedBlock(text), BraceSpan(text))

\* what the earlier analyzeScreenshot settles with: the parsed value as it
\* is, with the outer catch of the forex pipeline
EarlierOutcome(retried) ==
    IF retried.kind = "error" THEN OuterCatch("forex", retried)
    ELSE OuterCatch("forex", EarlierExtract(retried.v))

EarlierStart ==
    /\ pc = "start"
    /\ caller = "earlier"
    /\ EnterLoop(1)
    /\ UNCHANGED <<caller, maxRetries, baseDelay, sleeps, errors, reply, raw, out,
                   host, marketVars, searchVars, parked, chatSeen, response>>

\* model.generateContent resolves with a response
EarlierResolvesWithResponse ==
    /\ pc = "awaitOperation"
    /\ caller = "earlier"
    /\ \E b \in ObjectBodies \cup OtherBodies, w \in Wrappings :
          /\ response' = [body |-> b, wrap |-> w]
          /\ settled' = Returned(Wrap(b, w))
    /\ pc' = "settled"
    /\ UNCHANGED <<caller, maxRetries, baseDelay, attempt, calls, sleeps, errors,
                   reply, raw, out, host, marketVars, searchVars, parked, chatSeen>>

EarlierSettle ==
    /\ pc = "settled"
    /\ caller = "earlier"
    /\ reply' = EarlierOutcome(settled)
    /\ pc' = "replied"
    /\ UNCHANGED <<caller, maxRetries, baseDelay, attempt, calls, sleeps, errors,
                   settled, raw, out, host, marketVars, searchVars, parked, chatSeen, response>>

InitEarlier ==
    /\ caller = "earlier"
    /\ host = DefaultHost
    /\ maxRetries = DefaultMaxRetries
    /\ baseDelay = DefaultBaseDelay
    /\ attempt = 0
    /\ pc = "start"
    /\ calls = 0
    /\ sleeps = <<>>
    /\ errors = <<>>
    /\ settled = Pending
    /\ reply = Pending
    /\ raw = NoObject
    /\ out = Pending
    /\ response = NoResponse
    /\ MarketIdle
    /\ SearchIdle
    /\ ChatIdle
    /\ NoSecondCall

NextEarlier ==
    \/ EarlierStart
    \/ EarlierResolvesWithResponse
    \/ OperationRejects
    \/ TimerFires
    \/ EarlierSettle

SpecEarlier == InitEarlier /\ [][NextEarlier]_vars

-----------------------------------------------------------------------------
(* Claims about the parse section *)

\* is the text the text of one JSON object
IsObjectText(text) ==
    LET p == JsonParse(text) IN p.ok /\ p.v.t = "object"

\* does some part of the text, from a '{' to a '}', read as a JSON object
HoldsObject(text) ==
    \E i \in 1..Len(text) : \E j \in i..Len(text) :
        /\ text[i] = "{"
        /\ text[j] = "}"
        /\ IsObjectText(SubSeq(text, i, j))

\* the wrappings C9 names: bare, tagged fence, untagged fence, prose around
C9_Wrappings == {"bare", "jsonFence", "fence", "proseBefore", "proseAfter",
                 "proseBoth", "braceProse"}

\* C9: for every JSON object, every wrapping of its text (bare,
\* tagged fence, untagged fence, prose before and / or after) yields the
\* outcome of the bare text, field for field.
C9_AllWrappingsAgree ==
    (pc = "replied" /\ response.wrap \in C9_Wrappings /\ IsObjectText(response.body)) =>
        reply = AnalysisOutcome(caller, host, Returned(Wrap(response.body, "bare")))

\* C10: the analysis call returns a record only when a JSON object was
\* recovered: a response that holds no JSON object (a bare number, string,
\* boolean or array included) fails with the unclear-image error, and a
\* response that is the text of a JSON object, bare or in a fence, returns a
\* record, however few fields it has.
C10_RecordOnlyFromObject ==
    (pc = "replied" /\ settled.kind = "value") =>
        /\ ~HoldsObject(settled.v) => reply = Thrown(ErrUnclear(caller))
        /\ (IsObjectText(response.body) /\ response.wrap \in {"bare", "jsonFence", "fence"})
              => reply.kind = "value"


-----------------------------------------------------------------------------
(* The forex scenario, end to end *)

\* the forex record with every field absent
AbsentForexRecord ==
    [symbol |-> Undef, type |-> Undef, volumeLot |-> Undef, openPrice |-> Undef,
     closePrice |-> Undef, tp |-> Undef, sl |-> Undef, position |-> Undef,
     openTime |-> Undef, closeTime |-> Undef, reason |-> Undef, pnlUsd |-> Undef]

\* C11: the response 'Here is the data:' followed by a tagged fence holding
\* {symbol 'XAU/USD', type 'Buy', tp '2,060.5', position '1023841'} yields, in
\* the forex pipeline, symbol 'XAU/USD', side Buy, take profit 2060.5 and
\* every other field, the status included, absent.
C11_ForexScenarioRecord ==
    ( /\ pc = "replied"
      /\ caller = "forex"
      /\ response = [body |-> ScenarioBody, wrap |-> "dataJsonFence"] ) =>
        reply = Returned([AbsentForexRecord EXCEPT
                            !.symbol = Str(<<"X", "A", "U", "/", "U", "S", "D">>),
                            !.type = Str(<<"B", "u", "y">>),
                            !.tp = Num(20605, 1)])

C11_Witness ==
    /\ pc = "replied"
    /\ caller = "forex"
    /\ response = [body |-> ScenarioBody, wrap |-> "dataJsonFence"]
    /\ settled = Returned(<<"H", "e", "r", "e", " ", "i", "s", " ", "t", "h", "e", " ", "d", "a", "t", "a", ":", "\n", "BQ", "BQ", "BQ", "j", "s", "o", "n", "\n">> \o ScenarioBody \o <<"\n", "BQ", "BQ", "BQ">>)
    /\ reply.kind = "value"
    /\ reply.v.position = Undef


-----------------------------------------------------------------------------
(* The status classifier on numbers and order numbers *)

\* the value normalizePosition is applied to in each pipeline
PositionInput(variant, data) ==
    IF variant = "forex" THEN GetProp(data, <<"p", "o", "s", "i", "t", "i", "o", "n">>)
    ELSE PositionAfterStatusMove(data)

\* a number, or a text made only of digits
IsNumericInput(v) ==
    \/ v.t = "number"
    \/ v.t = "string" /\ v.s # <<>> /\ \A i \in 1..Len(v.s) : IsDigit(v.s[i])

\* C12: in both pipelines normalizePosition answers absent, never Open or
\* Closed and never an error, for every text made only of digits and every
\* value typed as a number; the record then holds no status.
C12_NumericStatusAbsent ==
    (pc = "assembled" /\ IsNumericInput(PositionInput(caller, raw))) =>
        /\ normalizePosition(PositionInput(caller, raw)) = Undef
        /\ out.kind = "value" => out.v.position = Undef

C12_Witness ==
    /\ pc = "assembled"
    /\ caller = "crypto"
    /\ raw = Obj(<<"s", "t", "a", "t", "u", "s">> :> Str(<<"1", "0", "2", "3", "8", "4", "1">>))
    /\ out.kind = "value"
    /\ out.v.position = Undef


-----------------------------------------------------------------------------
(* The common fields of a crypto record *)

\* C13: in every record of the crypto assembler the side is Buy exactly when
\* the direction is Long and Sell exactly when it is Short, and symbol,
\* openPrice, closePrice, pnlUsd and volumeLot equal futuresSymbol,
\* avgEntryPrice, avgClosePrice, realizedPnl and closingQuantity, absent
\* together or the same value.
C13_CryptoCrossPopulated ==
    (pc = "assembled" /\ caller = "crypto" /\ out.kind = "value") =>
        /\ out.v.type = Str(<<"B", "u", "y">>) <=> out.v.direction = Str(<<"L", "o", "n", "g">>)
        /\ out.v.type = Str(<<"S", "e", "l", "l">>) <=> out.v.direction = Str(<<"S", "h", "o", "r", "t">>)
        /\ out.v.symbol = out.v.futuresSymbol
        /\ out.v.openPrice = out.v.avgEntryPrice
        /\ out.v.closePrice = out.v.avgClosePrice
        /\ out.v.pnlUsd = out.v.realizedPnl
        /\ out.v.volumeLot = out.v.closingQuantity

C13_Witness ==
    /\ pc = "assembled"
    /\ caller = "crypto"
    /\ raw = CryptoSample
    /\ out.kind = "value"
    /\ out.v.type = Str(<<"S", "e", "l", "l">>)
    /\ out.v.openPrice = IntNum(1250)
    /\ out.v.pnlUsd = Num(-15, 1)


-----------------------------------------------------------------------------
(* The direction of a crypto record *)

\* the raw direction of the object, lowered and trimmed
LoweredDirection(data) == Trim(ToLowerCase(GetProp(data, <<"d", "i", "r", "e", "c", "t", "i", "o", "n">>).s))

\* C14: for every raw direction text, the crypto record holds direction Long
\* and side Buy when the lowered, trimmed text is 'long', direction Short and
\* side Sell when it is 'short', and neither a direction nor a side for any
\* other text.
C14_DirectionMappingClosed ==
    ( /\ pc = "assembled"
      /\ caller = "crypto"
      /\ out.kind = "value"
      /\ GetProp(raw, <<"d", "i", "r", "e", "c", "t", "i", "o", "n">>).t = "string" ) =>
        IF LoweredDirection(raw) = <<"l", "o", "n", "g">>
        THEN out.v.direction = Str(<<"L", "o", "n", "g">>) /\ out.v.type = Str(<<"B", "u", "y">>)
        ELSE IF LoweredDirection(raw) = <<"s", "h", "o", "r", "t">>
        THEN out.v.direction = Str(<<"S", "h", "o", "r", "t">>) /\ out.v.type = Str(<<"S", "e", "l", "l">>)
        ELSE out.v.direction = Undef /\ out.v.type = Undef


-----------------------------------------------------------------------------
(* The closed vocabularies of a record *)

SideValues == {Str(<<"B", "u", "y">>), Str(<<"S", "e", "l", "l">>), Undef}
StatusValues == {Str(<<"O", "p", "e", "n">>), Str(<<"C", "l", "o", "s", "e", "d">>), Undef}
ReasonValues == {Str(<<"T", "P">>), Str(<<"S", "L">>), Str(<<"E", "a", "r", "l", "y", " ", "C", "l", "o", "s", "e">>), Str(<<"O", "t", "h", "e", "r">>), Undef}
MarginModeValues == {Str(<<"C", "r", "o", "s", "s">>), Str(<<"I", "s", "o", "l", "a", "t", "e", "d">>), Undef}
DirectionValues == {Str(<<"L", "o", "n", "g">>), Str(<<"S", "h", "o", "r", "t">>), Undef}

\* C15: in every record of either assembler the side is Buy, Sell or absent,
\* the status Open, Closed or absent, the reason TP, SL, Early Close, Other or
\* absent, the margin mode Cross, Isolated or absent, and the direction Long,
\* Short or absent.
C15_EnumFieldsClosed ==
    (pc = "assembled" /\ out.kind = "value") =>
        /\ out.v.type \in SideValues
        /\ out.v.position \in StatusValues
        /\ caller = "forex" => out.v.reason \in ReasonValues
        /\ caller = "crypto" => /\ out.v.marginMode \in MarginModeValues
                                /\ out.v.direction \in DirectionValues


-----------------------------------------------------------------------------
(* EnhancedMarketDataService.  A provider request ends in one of four ways: *)
(* fetch rejects (network), the response is not ok (http), response.json()  *)
(* rejects (notJson), or the body is the JSON value data.                   *)

NetworkError == [kind |-> "network"]
HttpError == [kind |-> "http"]
NotJson == [kind |-> "notJson"]
Json(data) == [kind |-> "json", data |-> data]

\* a value whose property read throws; a throw stays a throw
Nullish(v) == v.t \in {"undefined", "null", "throw"}

\* v.key, a TypeError when v is null or undefined
Prop(v, key) == IF Nullish(v) THEN TypeErrorThrown ELSE GetProp(v, key)

\* a || b
Or(a, b) == IF Truthy(a) THEN a ELSE b

\* v[0]
Index0(v) ==
    CASE v.t = "array" -> IF Len(v.a) > 0 THEN v.a[1] ELSE Undef
      [] v.t = "string" -> IF Len(v.s) > 0 THEN Str(<<v.s[1]>>) ELSE Undef
      [] v.t = "object" -> GetProp(v, <<"0">>)
      [] v.t \in {"undefined", "null", "throw"} -> TypeErrorThrown
      [] OTHER -> Undef

\* the instant the host clock shows: the start of the host's year, and the
\* instant k hours before it
Now(env) == Instant(env.year, 1, 1, 0, 0, 0, 0)
HoursAgo(env, k) ==
    IF k = 0 THEN Now(env) ELSE Instant(env.year - 1, 12, 31, 24 - k, 0, 0, 0)

\* getCryptoPrices
CryptoFallback ==
    [btc |-> [symbol |-> Str(<<"B", "T", "C", "/", "U", "S", "D">>), price |-> IntNum(43250),
              change24h |-> IntNum(1250), changePercent24h |-> Num(298, 2)],
     eth |-> [symbol |-> Str(<<"E", "T", "H", "/", "U", "S", "D">>), price |-> IntNum(2650),
              change24h |-> IntNum(-45), changePercent24h |-> Num(-167, 2)]]

CryptoQuote(symbol, coin) ==
    [symbol |-> Str(symbol), price |-> GetProp(coin, <<"u", "s", "d">>),
     change24h |-> Or(GetProp(coin, <<"u", "s", "d", "_", "2", "4", "h", "_", "c", "h", "a", "n", "g", "e">>), IntNum(0)),
     changePercent24h |-> Or(GetProp(coin, <<"u", "s", "d", "_", "2", "4", "h", "_", "c", "h", "a", "n", "g", "e">>), IntNum(0))]

\* mutant: a coin missing from the response is replaced by its static quote
getCryptoPricesPerCoin(fetched) ==
    IF fetched.kind # "json" \/ Nullish(fetched.data) THEN Returned(CryptoFallback)
    ELSE Returned([btc |-> IF Nullish(GetProp(fetched.data, <<"b", "i", "t", "c", "o", "i", "n">>)) THEN CryptoFallback.btc
                           ELSE CryptoQuote(<<"B", "T", "C", "/", "U", "S", "D">>, GetProp(fetched.data, <<"b", "i", "t", "c", "o", "i", "n">>)),
                   eth |-> IF Nullish(GetProp(fetched.data, <<"e", "t", "h", "e", "r", "e", "u", "m">>)) THEN CryptoFallback.eth
                           ELSE CryptoQuote(<<"E", "T", "H", "/", "U", "S", "D">>, GetProp(fetched.data, <<"e", "t", "h", "e", "r", "e", "u", "m">>))])

getCryptoPrices(fetched) ==
    IF fetched.kind # "json" THEN Returned(CryptoFallback)
    ELSE IF Nullish(Prop(fetched.data, <<"b", "i", "t", "c", "o", "i", "n">>)) \/ Nullish(Prop(fetched.data, <<"e", "t", "h", "e", "r", "e", "u", "m">>))
    THEN Returned(CryptoFallback)
    ELSE Returned([btc |-> CryptoQuote(<<"B", "T", "C", "/", "U", "S", "D">>, GetProp(fetched.data, <<"b", "i", "t", "c", "o", "i", "n">>)),
                   eth |-> CryptoQuote(<<"E", "T", "H", "/", "U", "S", "D">>, GetProp(fetched.data, <<"e", "t", "h", "e", "r", "e", "u", "m">>))])

\* getGoldPrice
GoldFallback ==
    [price |-> IntNum(2050), change24h |-> Num(155, 1), changePercent24h |-> Num(76, 2)]

\* data.quotes?.[0]
QuotesFirst(data) ==
    IF Nullish(data) THEN TypeErrorThrown
    ELSE IF Nullish(GetProp(data, <<"q", "u", "o", "t", "e", "s">>)) THEN Undef
    ELSE Index0(GetProp(data, <<"q", "u", "o", "t", "e", "s">>))

\* the try block: the price of the first quote, or a throw into the catch
GoldPrimary(fetched) ==
    IF fetched.kind # "json" THEN Thrown(MkError(TRUE, <<"F", "a", "i", "l", "e", "d", " ", "t", "o", " ", "f", "e", "t", "c", "h", " ", "g", "o", "l", "d", " ", "p", "r", "i", "c", "e", " ", "f", "r", "o", "m", " ", "T", "r", "a", "d", "e", "r", "m", "a", "d", "e">>, 0))
    ELSE IF QuotesFirst(fetched.data) = TypeErrorThrown THEN Thrown(ErrTypeError)
    ELSE IF ~Truthy(QuotesFirst(fetched.data)) THEN Thrown(MkError(TRUE, <<"I", "n", "v", "a", "l", "i", "d", " ", "g", "o", "l", "d", " ", "d", "a", "t", "a", " ", "f", "o", "r", "m", "a", "t">>, 0))
    ELSE Returned([price |-> Or(Or(GetProp(QuotesFirst(fetched.data), <<"m", "i", "d">>),
                                   GetProp(QuotesFirst(fetched.data), <<"a", "s", "k">>)), IntNum(2050)),
                   change24h |-> Num(155, 1), changePercent24h |-> Num(76, 2)])

\* the catch block: the second provider, then the static values
GoldSecondary(fetched) ==
    IF fetched.kind # "json" \/ Nullish(fetched.data) THEN Returned(GoldFallback)
    ELSE Returned([price |-> Or(GetProp(fetched.data, <<"p", "r", "i", "c", "e">>), IntNum(2050)),
                   change24h |-> Or(GetProp(fetched.data, <<"c", "h", "a", "n", "g", "e">>), Num(155, 1)),
                   changePercent24h |-> Or(GetProp(fetched.data, <<"c", "h", "a", "n", "g", "e", "_", "p", "e", "r", "c", "e", "n", "t">>), Num(76, 2))])

\* parseInt(value): the digits after white space and a sign, NaN without any
\* (decimal texts only: the providers send no text with a 0x prefix)
ParseIntText(s, i) ==
    IF DigitRunEnd(s, IF CharAt(s, i) \in {"+", "-"} THEN i + 1 ELSE i)
         = (IF CharAt(s, i) \in {"+", "-"} THEN i + 1 ELSE i)
    THEN NaN
    ELSE IntNum((IF CharAt(s, i) = "-" THEN -1 ELSE 1)
                * DigitsValue(s, i, DigitRunEnd(s, IF CharAt(s, i) \in {"+", "-"} THEN i + 1 ELSE i) - 1))

ParseInt(v) == ParseIntText(ToStr(v), SkipSpaces(ToStr(v), 1))

\* getFearGreedIndex
FearGreedFallback(env) ==
    [value |-> IntNum(65), classification |-> Str(<<"G", "r", "e", "e", "d">>),
     timestamp |-> Str(ToISOString(Now(env)))]

\* data.data[0]
LatestIndex(data) ==
    IF Nullish(Prop(data, <<"d", "a", "t", "a">>)) THEN TypeErrorThrown
    ELSE Index0(GetProp(data, <<"d", "a", "t", "a">>))

getFearGreedIndex(env, fetched) ==
    IF fetched.kind # "json" THEN Returned(FearGreedFallback(env))
    ELSE IF Nullish(LatestIndex(fetched.data)) THEN Returned(FearGreedFallback(env))
    ELSE Returned([value |-> ParseInt(GetProp(LatestIndex(fetched.data), <<"v", "a", "l", "u", "e">>)),
                   classification |-> GetProp(LatestIndex(fetched.data), <<"v", "a", "l", "u", "e", "_", "c", "l", "a", "s", "s", "i", "f", "i", "c", "a", "t", "i", "o", "n">>),
                   timestamp |-> GetProp(LatestIndex(fetched.data), <<"t", "i", "m", "e", "s", "t", "a", "m", "p">>)])

\* getFinancialNews
NewsLimit == 10

MockItem(env, id, title, description, hours, source_id, source_name, category) ==
    [article_id |-> Str(id), title |-> Str(title), description |-> Str(description),
     link |-> Str(<<"#">>), pubDate |-> Str(ToISOString(HoursAgo(env, hours))),
     source_id |-> Str(source_id), source_name |-> Str(source_name),
     source_url |-> Str(<<"#">>), source_icon |-> Undef, image_url |-> Undef,
     category |-> Arr(category)]

NewsFallback(env) ==
    << MockItem(env, <<"m", "o", "c", "k", "_", "1">>, <<"B", "i", "t", "c", "o", "i", "n", " ", "R", "e", "a", "c", "h", "e", "s", " ", "N", "e", "w", " ", "M", "o", "n", "t", "h", "l", "y", " ", "H", "i", "g", "h", " ", "A", "m", "i", "d", " ", "I", "n", "s", "t", "i", "t", "u", "t", "i", "o", "n", "a", "l", " ", "A", "d", "o", "p", "t", "i", "o", "n">>,
                <<"B", "i", "t", "c", "o", "i", "n", " ", "c", "o", "n", "t", "i", "n", "u", "e", "s", " ", "i", "t", "s", " ", "u", "p", "w", "a", "r", "d", " ", "m", "o", "m", "e", "n", "t", "u", "m", " ", "a", "s", " ", "m", "a", "j", "o", "r", " ", "i", "n", "s", "t", "i", "t", "u", "t", "i", "o", "n", "s", " ", "i", "n", "c", "r", "e", "a", "s", "e", " ", "t", "h", "e", "i", "r", " ", "c", "r", "y", "p", "t", "o", "c", "u", "r", "r", "e", "n", "c", "y", " ", "h", "o", "l", "d", "i", "n", "g", "s", ",", " ", "d", "r", "i", "v", "i", "n", "g", " ", "m", "a", "r", "k", "e", "t", " ", "c", "o", "n", "f", "i", "d", "e", "n", "c", "e", ".">>,
                0, <<"c", "r", "y", "p", "t", "o", "_", "n", "e", "w", "s", "_", "t", "o", "d", "a", "y">>, <<"C", "r", "y", "p", "t", "o", " ", "N", "e", "w", "s", " ", "T", "o", "d", "a", "y">>, <<Str(<<"c", "r", "y", "p", "t", "o", "c", "u", "r", "r", "e", "n", "c", "y">>)>>),
       MockItem(env, <<"m", "o", "c", "k", "_", "2">>, <<"G", "o", "l", "d", " ", "P", "r", "i", "c", "e", "s", " ", "S", "t", "a", "b", "i", "l", "i", "z", "e", " ", "a", "s", " ", "S", "a", "f", "e", " ", "H", "a", "v", "e", "n", " ", "D", "e", "m", "a", "n", "d", " ", "I", "n", "c", "r", "e", "a", "s", "e", "s">>,
                <<"G", "o", "l", "d", " ", "m", "a", "i", "n", "t", "a", "i", "n", "s", " ", "i", "t", "s", " ", "p", "o", "s", "i", "t", "i", "o", "n", " ", "a", "s", " ", "a", " ", "p", "r", "e", "f", "e", "r", "r", "e", "d", " ", "s", "a", "f", "e", " ", "h", "a", "v", "e", "n", " ", "a", "s", "s", "e", "t", " ", "d", "u", "r", "i", "n", "g", " ", "p", "e", "r", "i", "o", "d", "s", " ", "o", "f", " ", "m", "a", "r", "k", "e", "t", " ", "u", "n", "c", "e", "r", "t", "a", "i", "n", "t", "y", " ", "a", "n", "d", " ", "i", "n", "f", "l", "a", "t", "i", "o", "n", " ", "c", "o", "n", "c", "e", "r", "n", "s", ".">>,
                1, <<"f", "i", "n", "a", "n", "c", "i", "a", "l", "_", "t", "i", "m", "e", "s">>, <<"F", "i", "n", "a", "n", "c", "i", "a", "l", " ", "T", "i", "m", "e", "s">>, <<Str(<<"c", "o", "m", "m", "o", "d", "i", "t", "i", "e", "s">>)>>),
       MockItem(env, <<"m", "o", "c", "k", "_", "3">>, <<"E", "t", "h", "e", "r", "e", "u", "m", " ", "N", "e", "t", "w", "o", "r", "k", " ", "U", "p", "g", "r", "a", "d", "e", " ", "S", "h", "o", "w", "s", " ", "P", "r", "o", "m", "i", "s", "i", "n", "g", " ", "R", "e", "s", "u", "l", "t", "s">>,
                <<"L", "a", "t", "e", "s", "t", " ", "E", "t", "h", "e", "r", "e", "u", "m", " ", "i", "m", "p", "r", "o", "v", "e", "m", "e", "n", "t", "s", " ", "f", "o", "c", "u", "s", " ", "o", "n", " ", "s", "c", "a", "l", "a", "b", "i", "l", "i", "t", "y", " ", "a", "n", "d", " ", "r", "e", "d", "u", "c", "e", "d", " ", "t", "r", "a", "n", "s", "a", "c", "t", "i", "o", "n", " ", "f", "e", "e", "s", ",", " ", "a", "t", "t", "r", "a", "c", "t", "i", "n", "g", " ", "m", "o", "r", "e", " ", "d", "e", "v", "e", "l", "o", "p", "e", "r", "s", " ", "t", "o", " ", "t", "h", "e", " ", "p", "l", "a", "t", "f", "o", "r", "m", ".">>,
                2, <<"b", "l", "o", "c", "k", "c", "h", "a", "i", "n", "_", "t", "o", "d", "a", "y">>, <<"B", "l", "o", "c", "k", "c", "h", "a", "i", "n", " ", "T", "o", "d", "a", "y">>, <<Str(<<"c", "r", "y", "p", "t", "o", "c", "u", "r", "r", "e", "n", "c", "y">>)>>),
       MockItem(env, <<"m", "o", "c", "k", "_", "4">>, <<"T", "r", "a", "d", "i", "n", "g", " ", "V", "o", "l", "u", "m", "e", " ", "S", "u", "r", "g", "e", "s", " ", "A", "c", "r", "o", "s", "s", " ", "M", "a", "j", "o", "r", " ", "C", "r", "y", "p", "t", "o", "c", "u", "r", "r", "e", "n", "c", "y", " ", "E", "x", "c", "h", "a", "n", "g", "e", "s">>,
                <<"I", "n", "c", "r", "e", "a", "s", "e", "d", " ", "r", "e", "t", "a", "i", "l", " ", "a", "n", "d", " ", "i", "n", "s", "t", "i", "t", "u", "t", "i", "o", "n", "a", "l", " ", "t", "r", "a", "d", "i", "n", "g", " ", "a", "c", "t", "i", "v", "i", "t", "y", " ", "d", "r", "i", "v", "e", "s", " ", "r", "e", "c", "o", "r", "d", " ", "v", "o", "l", "u", "m", "e", "s", " ", "a", "c", "r", "o", "s", "s", " ", "l", "e", "a", "d", "i", "n", "g", " ", "c", "r", "y", "p", "t", "o", " ", "t", "r", "a", "d", "i", "n", "g", " ", "p", "l", "a", "t", "f", "o", "r", "m", "s", ".">>,
                3, <<"m", "a", "r", "k", "e", "t", "_", "w", "a", "t", "c", "h">>, <<"M", "a", "r", "k", "e", "t", " ", "W", "a", "t", "c", "h">>, <<Str(<<"c", "r", "y", "p", "t", "o", "c", "u", "r", "r", "e", "n", "c", "y">>), Str(<<"t", "r", "a", "d", "i", "n", "g">>)>>),
       MockItem(env, <<"m", "o", "c", "k", "_", "5">>, <<"C", "e", "n", "t", "r", "a", "l", " ", "B", "a", "n", "k", "s", " ", "C", "o", "n", "s", "i", "d", "e", "r", " ", "D", "i", "g", "i", "t", "a", "l", " ", "C", "u", "r", "r", "e", "n", "c", "y", " ", "I", "m", "p", "l", "e", "m", "e", "n", "t", "a", "t", "i", "o", "n", "s">>,
                <<"M", "u", "l", "t", "i", "p", "l", "e", " ", "c", "e", "n", "t", "r", "a", "l", " ", "b", "a", "n", "k", "s", " ", "w", "o", "r", "l", "d", "w", "i", "d", "e", " ", "a", "r", "e", " ", "a", "c", "c", "e", "l", "e", "r", "a", "t", "i", "n", "g", " ", "t", "h", "e", "i", "r", " ", "d", "i", "g", "i", "t", "a", "l", " ", "c", "u", "r", "r", "e", "n", "c", "y", " ", "r", "e", "s", "e", "a", "r", "c", "h", " ", "a", "n", "d", " ", "p", "i", "l", "o", "t", " ", "p", "r", "o", "g", "r", "a", "m", "s", ".">>,
                4, <<"r", "e", "u", "t", "e", "r", "s">>, <<"R", "e", "u", "t", "e", "r", "s">>, <<Str(<<"f", "i", "n", "a", "n", "c", "e">>)>>) >>

\* mutant: an article is kept for its title alone
KeepArticleTitleOnly(article) == Truthy(GetProp(article, <<"t", "i", "t", "l", "e">>))

\* article => article.title && article.description
KeepArticle(article) ==
    Truthy(GetProp(article, <<"t", "i", "t", "l", "e">>)) /\ Truthy(GetProp(article, <<"d", "e", "s", "c", "r", "i", "p", "t", "i", "o", "n">>))

\* the callback of map
NewsItemOf(article) ==
    [article_id |-> GetProp(article, <<"a", "r", "t", "i", "c", "l", "e", "_", "i", "d">>), title |-> GetProp(article, <<"t", "i", "t", "l", "e">>),
     description |-> GetProp(article, <<"d", "e", "s", "c", "r", "i", "p", "t", "i", "o", "n">>), link |-> GetProp(article, <<"l", "i", "n", "k">>),
     pubDate |-> GetProp(article, <<"p", "u", "b", "D", "a", "t", "e">>), source_id |-> GetProp(article, <<"s", "o", "u", "r", "c", "e", "_", "i", "d">>),
     source_name |-> GetProp(article, <<"s", "o", "u", "r", "c", "e", "_", "n", "a", "m", "e">>),
     source_url |-> GetProp(article, <<"s", "o", "u", "r", "c", "e", "_", "u", "r", "l">>),
     source_icon |-> Or(GetProp(article, <<"s", "o", "u", "r", "c", "e", "_", "i", "c", "o", "n">>), Undef),
     image_url |-> Or(GetProp(article, <<"i", "m", "a", "g", "e", "_", "u", "r", "l">>), Undef),
     category |-> GetProp(article, <<"c", "a", "t", "e", "g", "o", "r", "y">>)]

\* items.slice(0, n)
SliceFirst(items, n) == SubSeq(items, 1, IF Len(items) < n THEN Len(items) ELSE n)

\* mutant: the list is cut before it is filtered
FilterMapSliceCutFirst(results) ==
    [i \in 1..Len(SelectSeq(SliceFirst(results, NewsLimit), KeepArticle)) |->
        NewsItemOf(SelectSeq(SliceFirst(results, NewsLimit), KeepArticle)[i])]

\* results.filter(...).map(...).slice(0, 10)
FilterMapSlice(results) ==
    SliceFirst([i \in 1..Len(SelectSeq(results, KeepArticle)) |->
                   NewsItemOf(SelectSeq(results, KeepArticle)[i])], NewsLimit)

getFinancialNews(env, fetched) ==
    IF fetched.kind # "json" \/ Nullish(fetched.data) THEN Returned(Arr(NewsFallback(env)))
    ELSE IF ~Truthy(GetProp(fetched.data, <<"r", "e", "s", "u", "l", "t", "s">>)) \/ GetProp(fetched.data, <<"r", "e", "s", "u", "l", "t", "s">>).t # "array"
    THEN Returned(Arr(NewsFallback(env)))
    ELSE IF \E i \in 1..Len(GetProp(fetched.data, <<"r", "e", "s", "u", "l", "t", "s">>).a) :
                Nullish(GetProp(fetched.data, <<"r", "e", "s", "u", "l", "t", "s">>).a[i])
    THEN Returned(Arr(NewsFallback(env)))
    ELSE Returned(Arr(FilterMapSlice(GetProp(fetched.data, <<"r", "e", "s", "u", "l", "t", "s">>).a)))

-----------------------------------------------------------------------------
(* What the providers may answer *)

MaxArticles == 13

FailedRequests == {NetworkError, HttpError, NotJson}

CryptoAnswers ==
    FailedRequests
    \cup {Json(Null), Json(Obj(<<>>)),
          Json(Obj(<<"b", "i", "t", "c", "o", "i", "n">> :> Obj(<<"u", "s", "d">> :> IntNum(67000)))),
          Json(Obj(<<"b", "i", "t", "c", "o", "i", "n">> :> Null @@ <<"e", "t", "h", "e", "r", "e", "u", "m">> :> Obj(<<"u", "s", "d">> :> IntNum(3100)))),
          Json(Obj(<<"b", "i", "t", "c", "o", "i", "n">> :> Obj(<<>>) @@ <<"e", "t", "h", "e", "r", "e", "u", "m">> :> Obj(<<>>))),
          Json(Obj(<<"b", "i", "t", "c", "o", "i", "n">> :> Obj(<<"u", "s", "d">> :> IntNum(67000) @@ <<"u", "s", "d", "_", "2", "4", "h", "_", "c", "h", "a", "n", "g", "e">> :> Num(-12, 1))
                   @@ <<"e", "t", "h", "e", "r", "e", "u", "m">> :> Obj(<<"u", "s", "d">> :> IntNum(3100))))}

GoldAnswers ==
    FailedRequests
    \cup {Json(Null), Json(Obj(<<>>)), Json(Obj(<<"q", "u", "o", "t", "e", "s">> :> Arr(<<>>))),
          Json(Obj(<<"q", "u", "o", "t", "e", "s">> :> Arr(<<Obj(<<>>)>>))),
          Json(Obj(<<"q", "u", "o", "t", "e", "s">> :> Arr(<<Obj(<<"a", "s", "k">> :> Num(20105, 1))>>))),
          Json(Obj(<<"q", "u", "o", "t", "e", "s">> :> Arr(<<Obj(<<"m", "i", "d">> :> IntNum(2011) @@ <<"a", "s", "k">> :> IntNum(2012))>>)))}

GoldSecondaryAnswers ==
    FailedRequests
    \cup {Json(Null), Json(Obj(<<>>)),
          Json(Obj(<<"p", "r", "i", "c", "e">> :> IntNum(2020) @@ <<"c", "h", "a", "n", "g", "e">> :> IntNum(-3)))}

FearGreedAnswers ==
    FailedRequests
    \cup {Json(Obj(<<>>)), Json(Obj(<<"d", "a", "t", "a">> :> Arr(<<>>))),
          Json(Obj(<<"d", "a", "t", "a">> :> Arr(<<Obj(<<>>)>>))),
          Json(Obj(<<"d", "a", "t", "a">> :> Arr(<<Obj(<<"v", "a", "l", "u", "e">> :> Str(<<"7", "2">>)
                                        @@ <<"v", "a", "l", "u", "e", "_", "c", "l", "a", "s", "s", "i", "f", "i", "c", "a", "t", "i", "o", "n">> :> Str(<<"G", "r", "e", "e", "d">>)
                                        @@ <<"t", "i", "m", "e", "s", "t", "a", "m", "p">> :> Str(<<"1", "7", "1", "8", "5", "0", "0", "0", "0", "0">>))>>)))}

\* an article of the provider; a flawed one lacks a title or a description
Article(i, flaw) ==
    Obj(<<"a", "r", "t", "i", "c", "l", "e", "_", "i", "d">> :> Str(<<"a">> \o NatToChars(i))
        @@ <<"t", "i", "t", "l", "e">> :> (IF flaw = "emptyTitle" THEN Str(<<>>) ELSE Str(<<"T">>))
        @@ <<"l", "i", "n", "k">> :> Str(<<"#">>)
        @@ (IF flaw = "noDescription" THEN <<>>
            ELSE <<"d", "e", "s", "c", "r", "i", "p", "t", "i", "o", "n">> :> (IF flaw = "nullDescription" THEN Null ELSE Str(<<"D">>))))

Flaws == {"emptyTitle", "nullDescription", "noDescription"}
FlawPatterns == {"none", "odd", "firstTwo", "last", "third", "all"}

Flawed(pattern, i, n) ==
    CASE pattern = "none" -> FALSE
      [] pattern = "odd" -> i % 2 = 1
      [] pattern = "firstTwo" -> i <= 2
      [] pattern = "last" -> i = n
      [] pattern = "third" -> i % 3 = 0
      [] pattern = "all" -> TRUE

ArticleList(n, pattern, flaw) ==
    [i \in 1..n |-> Article(i, IF Flawed(pattern, i, n) THEN flaw ELSE "none")]

NewsListing(list) == Json(Obj(<<"r", "e", "s", "u", "l", "t", "s">> :> Arr(list)))

\* the answers of the news provider: a few when the whole snapshot is
\* fetched, many lists when the news are fetched alone
NewsAnswers(c) ==
    IF c = "market"
    THEN {NetworkError, HttpError, Json(Obj(<<>>)), NewsListing(<<>>),
          NewsListing(ArticleList(2, "last", "emptyTitle"))}
    ELSE FailedRequests
         \cup {Json(Null), Json(Obj(<<>>)), Json(Obj(<<"r", "e", "s", "u", "l", "t", "s">> :> Str(<<"n", "o", "n", "e">>))),
               NewsListing(<<Null>>)}
         \cup {NewsListing(ArticleList(n, p, f)) : n \in 0..MaxArticles, p \in FlawPatterns, f \in Flaws}

-----------------------------------------------------------------------------
(* getAllMarketData: the four fetches start together, each settles on its  *)
(* own, and Promise.all joins them.                                         *)

\* no analysis call is under way
AiIdle ==
    /\ maxRetries = DefaultMaxRetries
    /\ baseDelay = DefaultBaseDelay
    /\ attempt = 0
    /\ pc = "idle"
    /\ calls = 0
    /\ sleeps = <<>>
    /\ errors = <<>>
    /\ settled = Pending
    /\ reply = Pending
    /\ raw = NoObject
    /\ out = Pending
    /\ response = NoResponse

\* a fetch of one provider ends and the leg resolves
LegSettles(leg, fetched, result) ==
    /\ legSeen' = [legSeen EXCEPT ![leg] = Append(@, fetched)]
    /\ legOut' = [legOut EXCEPT ![leg] = result]
    /\ legPc' = [legPc EXCEPT ![leg] = "settled"]
    /\ UNCHANGED <<snapshot, aiVars, searchVars>>

\* getAllMarketData is called: the four functions run up to their fetch
MarketStart ==
    /\ caller = "market"
    /\ \A l \in Legs : legPc[l] = "idle"
    /\ legPc' = [l \in Legs |-> "fetching"]
    /\ UNCHANGED <<legSeen, legOut, snapshot, aiVars, searchVars>>

CryptoSettles ==
    /\ legPc["crypto"] = "fetching"
    /\ \E fetched \in CryptoAnswers : LegSettles("crypto", fetched, getCryptoPrices(fetched))

\* the first gold provider answers: the leg resolves, or the catch block
\* asks the second provider
GoldPrimarySettles ==
    /\ legPc["gold"] = "fetching"
    /\ \E fetched \in GoldAnswers :
          IF GoldPrimary(fetched).kind = "value"
          THEN LegSettles("gold", fetched, GoldPrimary(fetched))
          ELSE /\ legSeen' = [legSeen EXCEPT !["gold"] = Append(@, fetched)]
               /\ legPc' = [legPc EXCEPT !["gold"] = "fallback"]
               /\ UNCHANGED <<legOut, snapshot, aiVars, searchVars>>

GoldSecondarySettles ==
    /\ legPc["gold"] = "fallback"
    /\ \E fetched \in GoldSecondaryAnswers : LegSettles("gold", fetched, GoldSecondary(fetched))

FearGreedSettles ==
    /\ legPc["fearGreed"] = "fetching"
    /\ \E fetched \in FearGreedAnswers :
          LegSettles("fearGreed", fetched, getFearGreedIndex(host, fetched))

NewsSettles ==
    /\ legPc["news"] = "fetching"
    /\ \E fetched \in NewsAnswers(caller) :
          LegSettles("news", fetched, getFinancialNews(host, fetched))

\* mutant: the snapshot is made as soon as the crypto leg has settled
JoinReadyCryptoOnly == legPc["crypto"] = "settled"

\* Promise.all settles: with the first rejection, or when all have resolved
JoinReady ==
    \/ \E l \in Legs : legOut[l].kind = "error"
    \/ \A l \in Legs : legPc[l] = "settled"

\* the legs of the snapshot; a leg that has not resolved holds undefined
SnapshotOf(outs) ==
    [l \in Legs |-> IF outs[l].kind = "value" THEN outs[l].v ELSE Undef]

MarketJoin ==
    /\ caller = "market"
    /\ snapshot = Pending
    /\ JoinReady
    /\ snapshot' = IF \E l \in Legs : legOut[l].kind = "error"
                   THEN legOut[CHOOSE l \in Legs : legOut[l].kind = "error"]
                   ELSE Returned(SnapshotOf(legOut))
    /\ UNCHANGED <<legPc, legSeen, legOut, aiVars, searchVars>>

InitMarket ==
    /\ caller = "market"
    /\ host = DefaultHost
    /\ AiIdle
    /\ MarketIdle
    /\ SearchIdle
    /\ ChatIdle
    /\ NoSecondCall

NextMarket ==
    \/ MarketStart
    \/ CryptoSettles
    \/ GoldPrimarySettles
    \/ GoldSecondarySettles
    \/ FearGreedSettles
    \/ NewsSettles
    \/ MarketJoin

SpecMarket == InitMarket /\ [][NextMarket]_vars

\* getFinancialNews called on its own (refreshNews)
NewsStart ==
    /\ caller = "news"
    /\ legPc["news"] = "idle"
    /\ legPc' = [legPc EXCEPT !["news"] = "fetching"]
    /\ UNCHANGED <<legSeen, legOut, snapshot, aiVars, searchVars>>

InitNews ==
    /\ caller = "news"
    /\ host \in Hosts
    /\ AiIdle
    /\ MarketIdle
    /\ SearchIdle
    /\ ChatIdle
    /\ NoSecondCall

NextNews == NewsStart \/ NewsSettles

SpecNews == InitNews /\ [][NextNews]_vars

-----------------------------------------------------------------------------
(* Claims about the market data snapshot *)

IsNumber(v) == v.t = "number" /\ v.inf = 0

\* does the payload of the k-th request of a leg hold what the leg reads
WellFormed(leg, k, data) ==
    CASE leg = "crypto" ->
           /\ ~Nullish(Prop(data, <<"b", "i", "t", "c", "o", "i", "n">>)) /\ ~Nullish(Prop(data, <<"e", "t", "h", "e", "r", "e", "u", "m">>))
           /\ IsNumber(GetProp(GetProp(data, <<"b", "i", "t", "c", "o", "i", "n">>), <<"u", "s", "d">>))
           /\ IsNumber(GetProp(GetProp(data, <<"e", "t", "h", "e", "r", "e", "u", "m">>), <<"u", "s", "d">>))
      [] leg = "gold" /\ k = 1 ->
           /\ ~Nullish(QuotesFirst(data))
           /\ \/ IsNumber(GetProp(QuotesFirst(data), <<"m", "i", "d">>))
              \/ IsNumber(GetProp(QuotesFirst(data), <<"a", "s", "k">>))
      [] leg = "gold" /\ k # 1 ->
           ~Nullish(data) /\ IsNumber(GetProp(data, <<"p", "r", "i", "c", "e">>))
      [] leg = "fearGreed" ->
           /\ ~Nullish(LatestIndex(data))
           /\ IsNumber(ParseInt(GetProp(LatestIndex(data), <<"v", "a", "l", "u", "e">>)))
      [] leg = "news" ->
           /\ ~Nullish(data)
           /\ GetProp(data, <<"r", "e", "s", "u", "l", "t", "s">>).t = "array"
           /\ \A i \in 1..Len(GetProp(data, <<"r", "e", "s", "u", "l", "t", "s">>).a) : ~Nullish(GetProp(data, <<"r", "e", "s", "u", "l", "t", "s">>).a[i])

\* the request failed: a network exception, an HTTP error, a body that is
\* no JSON, or a malformed payload
ProviderFailed(leg, k, fetched) ==
    fetched.kind # "json" \/ ~WellFormed(leg, k, fetched.data)

EveryProviderFailed ==
    \A l \in Legs : \A k \in 1..Len(legSeen[l]) : ProviderFailed(l, k, legSeen[l][k])

\* C16: getAllMarketData never fails as a whole: whatever the outcomes of
\* the providers, it returns a snapshot that holds all four legs, and when
\* every provider failed the legs hold the static values (BTC 43250, ETH
\* 2650, gold 2050, sentiment 65 'Greed', the five mock news items).
C16_SnapshotNeverFails ==
    snapshot # Pending =>
        /\ snapshot.kind = "value"
        /\ \A l \in Legs : snapshot.v[l] # Undef
        /\ EveryProviderFailed =>
              /\ snapshot.v["crypto"].btc.price = IntNum(43250)
              /\ snapshot.v["crypto"].eth.price = IntNum(2650)
              /\ snapshot.v["gold"].price = IntNum(2050)
              /\ snapshot.v["fearGreed"].value = IntNum(65)
              /\ snapshot.v["fearGreed"].classification = Str(<<"G", "r", "e", "e", "d">>)
              /\ Len(snapshot.v["news"].a) = 5
              /\ \A i \in 1..5 : snapshot.v["news"].a[i].article_id = Str(<<"m", "o", "c", "k", "_">> \o NatToChars(i))


\* the value a leg resolves with, from the answers its own requests got
LegValue(leg, seen) ==
    CASE leg = "crypto" -> getCryptoPrices(seen[1]).v
      [] leg = "gold" -> IF Len(seen) = 1 THEN GoldPrimary(seen[1]).v
                                          ELSE GoldSecondary(seen[2]).v
      [] leg = "fearGreed" -> getFearGreedIndex(host, seen[1]).v
      [] leg = "news" -> getFinancialNews(host, seen[1]).v

\* C17: the four legs are independent and joined: a snapshot exists only
\* when all four legs have settled, and each of its legs is the value that
\* the answers to that leg's own requests give, whatever the other legs got
\* and in whatever order the four settled.
C17_LegsIndependentAndJoined ==
    snapshot # Pending =>
        /\ \A l \in Legs : legPc[l] = "settled" /\ legOut[l].kind = "value"
        /\ snapshot.kind = "value"
        /\ \A l \in Legs : snapshot.v[l] = LegValue(l, legSeen[l])

\* a snapshot whose crypto and news legs failed while the gold leg holds
\* the second provider's price and the sentiment leg the provider's value
C17_Witness ==
    /\ snapshot # Pending
    /\ legSeen["crypto"] = <<NetworkError>>
    /\ legSeen["news"] = <<HttpError>>
    /\ Len(legSeen["gold"]) = 2
    /\ snapshot.v["gold"].price = IntNum(2020)
    /\ snapshot.v["fearGreed"].value = IntNum(72)

\* a text that is not empty
NonEmptyText(v) == v.t = "string" /\ v.s # <<>>

HasTitleAndDescription(article) ==
    NonEmptyText(GetProp(article, <<"t", "i", "t", "l", "e">>)) /\ NonEmptyText(GetProp(article, <<"d", "e", "s", "c", "r", "i", "p", "t", "i", "o", "n">>))

\* the provider answered with a list of articles
IsArticleListing(fetched) ==
    /\ fetched.kind = "json"
    /\ fetched.data.t = "object"
    /\ GetProp(fetched.data, <<"r", "e", "s", "u", "l", "t", "s">>).t = "array"
    /\ \A i \in 1..Len(GetProp(fetched.data, <<"r", "e", "s", "u", "l", "t", "s">>).a) :
          GetProp(fetched.data, <<"r", "e", "s", "u", "l", "t", "s">>).a[i].t = "object"

ListedArticles(fetched) == GetProp(fetched.data, <<"r", "e", "s", "u", "l", "t", "s">>).a

\* items are the first NewsLimit of wanted, one for one and in that order
FirstOfInOrder(items, wanted) ==
    /\ Len(items) = (IF Len(wanted) < NewsLimit THEN Len(wanted) ELSE NewsLimit)
    /\ \A k \in 1..Len(items) :
          /\ items[k].article_id = GetProp(wanted[k], <<"a", "r", "t", "i", "c", "l", "e", "_", "i", "d">>)
          /\ items[k].title = GetProp(wanted[k], <<"t", "i", "t", "l", "e">>)
          /\ items[k].description = GetProp(wanted[k], <<"d", "e", "s", "c", "r", "i", "p", "t", "i", "o", "n">>)

\* C18: when the news provider answers with a list of articles,
\* getFinancialNews returns the articles that have a non-empty title and a
\* non-empty description, in the provider's order, cut to the first ten:
\* the filter is applied before the cut.
C18_NewsFilteredThenCut ==
    (legPc["news"] = "settled" /\ IsArticleListing(legSeen["news"][1])) =>
        /\ legOut["news"].kind = "value"
        /\ FirstOfInOrder(legOut["news"].v.a,
                          SelectSeq(ListedArticles(legSeen["news"][1]), HasTitleAndDescription))

\* thirteen articles of which the first two lack a description: the ten
\* returned are the third to the twelfth
C18_Witness ==
    /\ legPc["news"] = "settled"
    /\ IsArticleListing(legSeen["news"][1])
    /\ Len(ListedArticles(legSeen["news"][1])) = 13
    /\ ~HasTitleAndDescription(ListedArticles(legSeen["news"][1])[1])
    /\ Len(legOut["news"].v.a) = 10
    /\ legOut["news"].v.a[1].article_id = Str(<<"a", "3">>)
    /\ legOut["news"].v.a[10].article_id = Str(<<"a", "1", "2">>)

-----------------------------------------------------------------------------
(* fetchMarketData: one search request, then one content request for each  *)
(* search result, all under way together and joined by Promise.all.  The    *)
(* service method and the edge function differ in what they return when     *)
(* there is nothing to enrich.                                              *)

MaxResults == 3

SearchCallers == {"service", "edge"}

\* the i-th result of the search; every second one names its author
SearchResult(i) ==
    Obj(<<"i", "d">> :> Str(<<"r">> \o NatToChars(i))
        @@ <<"t", "i", "t", "l", "e">> :> Str(<<"T">> \o NatToChars(i))
        @@ <<"u", "r", "l">> :> Str(<<"u">> \o NatToChars(i))
        @@ (IF i % 2 = 0 THEN <<"a", "u", "t", "h", "o", "r">> :> Str(<<"A">>) ELSE <<>>))

SearchListing(n) == Json(Obj(<<"r", "e", "s", "u", "l", "t", "s">> :> Arr([i \in 1..n |-> SearchResult(i)])))

SearchAnswers ==
    FailedRequests \cup {Json(Null), Json(Obj(<<>>))} \cup {SearchListing(n) : n \in 0..MaxResults}

Contents(list) == Json(Obj(<<"c", "o", "n", "t", "e", "n", "t", "s">> :> Arr(list)))

ContentAnswers ==
    FailedRequests
    \cup {Json(Null), Json(Obj(<<>>)), Contents(<<>>), Contents(<<Obj(<<>>)>>),
          Contents(<<Obj(<<"e", "x", "t", "r", "a", "c", "t">> :> Str(<<>>))>>),
          Contents(<<Obj(<<"e", "x", "t", "r", "a", "c", "t">> :> Str(<<"E">>))>>),
          Contents(<<Obj(<<"e", "x", "t", "r", "a", "c", "t">> :> Str(<<"F">>)), Obj(<<"e", "x", "t", "r", "a", "c", "t">> :> Str(<<"G">>))>>)}

\* v?.key
OptionalProp(v, key) == IF v.t \in {"undefined", "null"} THEN Undef ELSE GetProp(v, key)

\* { ...result, content: content }
WithContent(result, content) == Obj(<<"c", "o", "n", "t", "e", "n", "t">> :> content @@ result.o)

\* the callback of searchData.results.map: the result as it came when the
\* request fails or a read throws, else the result with the extract
ContentOf(result, fetched) ==
    IF fetched.kind # "json" THEN result
    ELSE IF Nullish(fetched.data) \/ Nullish(GetProp(fetched.data, <<"c", "o", "n", "t", "e", "n", "t", "s">>)) THEN result
    ELSE WithContent(result,
             Or(OptionalProp(Index0(GetProp(fetched.data, <<"c", "o", "n", "t", "e", "n", "t", "s">>)), <<"e", "x", "t", "r", "a", "c", "t">>), Str(<<>>)))

\* the callback of enrichedResults.map
EntryOf(result) ==
    [title |-> GetProp(result, <<"t", "i", "t", "l", "e">>), url |-> GetProp(result, <<"u", "r", "l">>),
     publishedDate |-> GetProp(result, <<"p", "u", "b", "l", "i", "s", "h", "e", "d", "D", "a", "t", "e">>),
     author |-> GetProp(result, <<"a", "u", "t", "h", "o", "r">>), content |-> GetProp(result, <<"c", "o", "n", "t", "e", "n", "t">>)]

\* mutant: a result without content is left out
EntriesWithContentOnly(results) ==
    SelectSeq([i \in 1..Len(results) |-> EntryOf(results[i])], LAMBDA e : e.content # Undef)

EntriesOf(results) == [i \in 1..Len(results) |-> EntryOf(results[i])]

\* what is returned when there is nothing to enrich: { searchResults: [] }
\* in the service, the still empty marketData in the edge function
NothingFound(c) ==
    IF c = "service" THEN Obj(<<"s", "e", "a", "r", "c", "h", "R", "e", "s", "u", "l", "t", "s">> :> Arr(<<>>)) ELSE Obj(<<>>)

\* searchData.results?.length
ResultCount(data) ==
    IF OptionalProp(data, <<"r", "e", "s", "u", "l", "t", "s">>).t = "array" THEN Len(GetProp(data, <<"r", "e", "s", "u", "l", "t", "s">>).a) ELSE 0

SearchStart ==
    /\ caller \in SearchCallers
    /\ searchPc = "idle"
    /\ searchPc' = "searching"
    /\ UNCHANGED <<searchSeen, contentSeen, enriched, marketData, aiVars, marketVars>>

\* the edge function finds no API key in its environment and returns {}
SearchWithoutKey ==
    /\ caller = "edge"
    /\ searchPc = "idle"
    /\ marketData' = Returned(Obj(<<>>))
    /\ searchPc' = "done"
    /\ UNCHANGED <<searchSeen, contentSeen, enriched, aiVars, marketVars>>

\* the search request ends: nothing to enrich, or one content request is
\* sent for every result
SearchSettles ==
    /\ searchPc = "searching"
    /\ \E fetched \in SearchAnswers :
          /\ searchSeen' = <<fetched>>
          /\ IF fetched.kind # "json" \/ Nullish(fetched.data) \/ ResultCount(fetched.data) = 0
             THEN /\ marketData' = Returned(NothingFound(caller))
                  /\ searchPc' = "done"
                  /\ UNCHANGED <<contentSeen, enriched>>
             ELSE /\ contentSeen' = [i \in 1..ResultCount(fetched.data) |-> Pending]
                  /\ enriched' = [i \in 1..ResultCount(fetched.data) |-> Pending]
                  /\ searchPc' = "enriching"
                  /\ UNCHANGED marketData
    /\ UNCHANGED <<aiVars, marketVars>>

\* the content request of one result ends, in any order
ContentSettles ==
    /\ searchPc = "enriching"
    /\ \E i \in 1..Len(enriched) : \E fetched \in ContentAnswers :
          /\ enriched[i] = Pending
          /\ contentSeen' = [contentSeen EXCEPT ![i] = fetched]
          /\ enriched' = [enriched EXCEPT ![i] =
                 Returned(ContentOf(GetProp(searchSeen[1].data, <<"r", "e", "s", "u", "l", "t", "s">>).a[i], fetched))]
    /\ UNCHANGED <<searchPc, searchSeen, marketData, aiVars, marketVars>>

\* Promise.all(contentPromises) resolves and the entries are returned
SearchJoin ==
    /\ searchPc = "enriching"
    /\ \A i \in 1..Len(enriched) : enriched[i] # Pending
    /\ marketData' = Returned(Obj(<<"s", "e", "a", "r", "c", "h", "R", "e", "s", "u", "l", "t", "s">> :>
                         Arr(EntriesOf([i \in 1..Len(enriched) |-> enriched[i].v]))))
    /\ searchPc' = "done"
    /\ UNCHANGED <<searchSeen, contentSeen, enriched, aiVars, marketVars>>

InitSearch ==
    /\ caller \in SearchCallers
    /\ host = DefaultHost
    /\ AiIdle
    /\ MarketIdle
    /\ SearchIdle
    /\ ChatIdle
    /\ NoSecondCall

NextSearch ==
    \/ SearchStart
    \/ SearchWithoutKey
    \/ SearchSettles
    \/ ContentSettles
    \/ SearchJoin

SpecSearch == InitSearch /\ [][NextSearch]_vars

\* the content request gave a body that holds an extract
ContentFetched(fetched) ==
    /\ fetched.kind = "json"
    /\ fetched.data.t = "object"
    /\ <<"c", "o", "n", "t", "e", "n", "t", "s">> \in DOMAIN fetched.data.o
    /\ fetched.data.o[<<"c", "o", "n", "t", "e", "n", "t", "s">>].t = "array"
    /\ Len(fetched.data.o[<<"c", "o", "n", "t", "e", "n", "t", "s">>].a) > 0
    /\ fetched.data.o[<<"c", "o", "n", "t", "e", "n", "t", "s">>].a[1].t = "object"
    /\ <<"e", "x", "t", "r", "a", "c", "t">> \in DOMAIN fetched.data.o[<<"c", "o", "n", "t", "e", "n", "t", "s">>].a[1].o

FetchedExtract(fetched) == fetched.data.o[<<"c", "o", "n", "t", "e", "n", "t", "s">>].a[1].o[<<"e", "x", "t", "r", "a", "c", "t">>]

\* an entry without content: the field is undefined or the empty text
NoContent(entry) == entry.content \in {Undef, Str(<<>>)}

\* the search answered with at least one result
SearchSucceeded ==
    /\ searchSeen # <<>>
    /\ searchSeen[1].kind = "json"
    /\ ~Nullish(searchSeen[1].data)
    /\ ResultCount(searchSeen[1].data) > 0

EntriesMatch(entries, results, seen) ==
    /\ Len(entries) = Len(results)
    /\ \A i \in 1..Len(results) :
          /\ entries[i].title = GetProp(results[i], <<"t", "i", "t", "l", "e">>)
          /\ entries[i].url = GetProp(results[i], <<"u", "r", "l">>)
          /\ entries[i].author = GetProp(results[i], <<"a", "u", "t", "h", "o", "r">>)
          /\ IF ContentFetched(seen[i])
             THEN entries[i].content = FetchedExtract(seen[i])
             ELSE NoContent(entries[i])

\* C19: when the search answers with n results, fetchMarketData returns n
\* entries in the order of the search; an entry whose content request
\* failed (status not ok, rejected request, body without an extract) has no
\* content, every other entry holds the extract fetched for it, and no
\* such failure makes the call fail or drops an entry.
C19_EveryResultKept ==
    (searchPc = "done" /\ SearchSucceeded) =>
        /\ marketData.kind = "value"
        /\ GetProp(marketData.v, <<"s", "e", "a", "r", "c", "h", "R", "e", "s", "u", "l", "t", "s">>).t = "array"
        /\ EntriesMatch(GetProp(marketData.v, <<"s", "e", "a", "r", "c", "h", "R", "e", "s", "u", "l", "t", "s">>).a,
                        GetProp(searchSeen[1].data, <<"r", "e", "s", "u", "l", "t", "s">>).a, contentSeen)

\* three results: the first content request is refused, the second gives
\* an extract, the third is rejected
C19_Witness ==
    /\ searchPc = "done"
    /\ SearchSucceeded
    /\ Len(contentSeen) = 3
    /\ contentSeen[1] = HttpError
    /\ ContentFetched(contentSeen[2])
    /\ contentSeen[3] = NetworkError
    /\ GetProp(marketData.v, <<"s", "e", "a", "r", "c", "h", "R", "e", "s", "u", "l", "t", "s">>).a[1].content = Undef
    /\ GetProp(marketData.v, <<"s", "e", "a", "r", "c", "h", "R", "e", "s", "u", "l", "t", "s">>).a[2].content = Str(<<"E">>)
    /\ GetProp(marketData.v, <<"s", "e", "a", "r", "c", "h", "R", "e", "s", "u", "l", "t", "s">>).a[3].title = Str(<<"T", "3">>)

\* C20: the two failure messages of analyzeScreenshot and
\* analyzeCryptoScreenshot are never confused: the high-demand message is
\* raised exactly when the model call failed with a rate-limit error at the
\* last attempt, and the unclear-image message exactly when the model call
\* succeeded and no record could be extracted from its response.
C20_MessagesNeverConfused ==
    pc = "replied" =>
        /\ (reply = Thrown(ErrHighDemand))
              <=> (settled.kind = "error" /\ IsQuotaError(settled.e) /\ attempt = maxRetries)
        /\ (reply = Thrown(ErrUnclear(caller)))
              <=> (settled.kind = "value" /\ reply.kind = "error")

-----------------------------------------------------------------------------
(* The reference of the numeric normalizer *)

\* '(x)' read as -x
ParenAsMinus(t) ==
    IF Len(t) >= 2 /\ t[1] = "(" /\ t[Len(t)] = ")"
    THEN <<"-">> \o SubSeq(t, 2, Len(t) - 1)
    ELSE t

\* the number the whole text t writes, absent when t is not a number
WholeNumber(t, d) == IF d.ok /\ d.next = Len(t) + 1 THEN d.v ELSE Undef

CleanedNumberText(v) ==
    ParenAsMinus(RemoveChars(Trim(ToStr(v)), CurrencyAndSpace \cup {","}))

RefNumber(v) ==
    IF v \in {Null, Undef, Str(<<>>)} THEN Undef
    ELSE WholeNumber(CleanedNumberText(v), ScanDecimal(CleanedNumberText(v), 1))

NumericForexKeys == {<<"v", "o", "l", "u", "m", "e", "L", "o", "t">>, <<"o", "p", "e", "n", "P", "r", "i", "c", "e">>, <<"c", "l", "o", "s", "e", "P", "r", "i", "c", "e">>, <<"t", "p">>, <<"s", "l">>, <<"p", "n", "l", "U", "s", "d">>}

\* C22: parseNumber never raises and equals the reference: null, undefined,
\* the empty text and a text that is no number after cleaning give absent,
\* every other text gives the number it writes once trimmed and stripped of
\* currency signs, '+', white space and commas, '(x)' being -x.
C22_ParseNumberIsReference ==
    (pc = "assembled" /\ caller = "forex" /\ DOMAIN raw.o \subseteq NumericForexKeys) =>
        /\ out.kind = "value"
        /\ out.v.volumeLot = RefNumber(GetProp(raw, <<"v", "o", "l", "u", "m", "e", "L", "o", "t">>))
        /\ out.v.openPrice = RefNumber(GetProp(raw, <<"o", "p", "e", "n", "P", "r", "i", "c", "e">>))
        /\ out.v.closePrice = RefNumber(GetProp(raw, <<"c", "l", "o", "s", "e", "P", "r", "i", "c", "e">>))
        /\ out.v.tp = RefNumber(GetProp(raw, <<"t", "p">>))
        /\ out.v.sl = RefNumber(GetProp(raw, <<"s", "l">>))
        /\ out.v.pnlUsd = RefNumber(GetProp(raw, <<"p", "n", "l", "U", "s", "d">>))

-----------------------------------------------------------------------------
(* parseDateTime applied to the 12-hour clock texts of the screenshots *)

ClockDays == {1, 16, 29, 31}
ClockMinutes == {0, 50, 59}
ClockMarks == {<<"A", "M">>, <<"P", "M">>, <<"p", "m">>}

\* the parts of a text '<Mon> <D>, <H>:<MM>:<SS> <AM|PM>'
ClockReadings ==
    [month : 1..12, day : ClockDays, hour : 1..12, minute : ClockMinutes,
     second : {55}, mark : ClockMarks]

ClockText(r) ==
    monthMap[r.month] \o <<" ">> \o NatToChars(r.day) \o <<",", " ">> \o NatToChars(r.hour)
    \o <<":">> \o PadNum(r.minute, 2) \o <<":">> \o PadNum(r.second, 2) \o <<" ">> \o r.mark

\* parseDateTime is applied to the text of a reading
ParseClockText ==
    /\ caller = "dates"
    /\ pc = "parse"
    /\ out' = Returned(parseDateTime(host, Str(ClockText(raw))))
    /\ pc' = "parsed"
    /\ UNCHANGED <<caller, maxRetries, baseDelay, attempt, calls, sleeps, errors,
                   settled, reply, raw, host, marketVars, searchVars, parked, chatSeen, response>>

InitDates ==
    /\ caller = "dates"
    /\ raw \in ClockReadings
    /\ host \in Hosts
    /\ pc = "parse"
    /\ out = Pending
    /\ maxRetries = DefaultMaxRetries
    /\ baseDelay = DefaultBaseDelay
    /\ attempt = 0
    /\ calls = 0
    /\ sleeps = <<>>
    /\ errors = <<>>
    /\ settled = Pending
    /\ reply = Pending
    /\ response = NoResponse
    /\ MarketIdle
    /\ SearchIdle
    /\ ChatIdle
    /\ NoSecondCall

NextDates == ParseClockText

SpecDates == InitDates /\ [][NextDates]_vars

\* the hour of the day of a 12-hour reading
HourOfDay(hour, mark) ==
    IF hour = 12 THEN (IF mark \in {<<"A", "M">>, <<"a", "m">>} THEN 0 ELSE 12)
    ELSE IF mark \in {<<"P", "M">>, <<"p", "m">>} THEN hour + 12
    ELSE hour

-----------------------------------------------------------------------------
(* The references of the two classifiers *)

\* a text, null or undefined: what a classifier is meant for
IsTextOrNothing(v) == v.t \in {"string", "null", "undefined"}

\* the text lower-cased and trimmed
Lowered(v) == Trim(ToLowerCase(v.s))

RefReasonOfText(t) ==
    CASE t = <<"t", "p">> -> Str(<<"T", "P">>)
      [] t = <<"s", "l">> -> Str(<<"S", "L">>)
      [] t = <<"e", "a", "r", "l", "y", " ", "c", "l", "o", "s", "e">> -> Str(<<"E", "a", "r", "l", "y", " ", "C", "l", "o", "s", "e">>)
      [] OTHER ->
           IF Includes(t, <<"t", "a", "k", "e", " ", "p", "r", "o", "f", "i", "t">>) \/ Includes(t, <<"t", "p">>) THEN Str(<<"T", "P">>)
           ELSE IF Includes(t, <<"s", "t", "o", "p", " ", "l", "o", "s", "s">>) \/ Includes(t, <<"s", "l">>) THEN Str(<<"S", "L">>)
           ELSE IF Includes(t, <<"e", "a", "r", "l", "y">>) /\ Includes(t, <<"c", "l", "o", "s">>) THEN Str(<<"E", "a", "r", "l", "y", " ", "C", "l", "o", "s", "e">>)
           ELSE Str(<<"O", "t", "h", "e", "r">>)

RefReason(v) ==
    IF v.t \in {"null", "undefined"} THEN Undef
    ELSE IF Lowered(v) = <<>> THEN Undef
    ELSE RefReasonOfText(Lowered(v))

\* C26: normalizeReason equals the reference on every text: after
\* lower-casing and trimming, the empty text (and null) is absent, 'tp',
\* 'sl' and 'early close' are TP, SL and EarlyClose, then a text holding
\* 'take profit' or 'tp' is TP, one holding 'stop loss' or 'sl' is SL, one
\* holding 'early' and 'clos' is EarlyClose, and any other text is Other.
C26_ReasonIsReference ==
    (/\ pc = "assembled" /\ caller = "forex"
     /\ DOMAIN raw.o \subseteq {<<"r", "e", "a", "s", "o", "n">>}
     /\ IsTextOrNothing(GetProp(raw, <<"r", "e", "a", "s", "o", "n">>))) =>
        /\ out.kind = "value"
        /\ out.v.reason = RefReason(GetProp(raw, <<"r", "e", "a", "s", "o", "n">>))

RefStatusOfText(t) ==
    CASE t = <<"o", "p", "e", "n">> -> Str(<<"O", "p", "e", "n">>)
      [] t \in {<<"c", "l", "o", "s", "e", "d">>, <<"a", "l", "l", " ", "c", "l", "o", "s", "e", "d">>, <<"c", "o", "m", "p", "l", "e", "t", "e", "d">>, <<"c", "o", "m", "p", "l", "e", "t", "e">>} -> Str(<<"C", "l", "o", "s", "e", "d">>)
      [] OTHER ->
           IF StartsWith(t, <<"o", "p", "e", "n">>) THEN Str(<<"O", "p", "e", "n">>)
           ELSE IF Includes(t, <<"c", "l", "o", "s", "e", "d">>) \/ Includes(t, <<"c", "o", "m", "p", "l", "e", "t", "e">>) THEN Str(<<"C", "l", "o", "s", "e", "d">>)
           ELSE Undef

RefStatus(v) ==
    IF v.t \in {"null", "undefined"} THEN Undef ELSE RefStatusOfText(Lowered(v))

\* C27: in both pipelines the status of the record is decided by the same
\* rules in the same order on the lower-cased, trimmed text: 'open' is
\* Open; 'closed', 'all closed', 'completed', 'complete' are Closed; then a
\* text starting with 'open' is Open, one holding 'closed' or 'complete' is
\* Closed, any other is absent.  A text starting with 'open' that holds
\* 'closed' is Open.
C27_StatusRulesInOrder ==
    (/\ pc = "assembled"
     /\ DOMAIN raw.o \subseteq {<<"p", "o", "s", "i", "t", "i", "o", "n">>, <<"s", "t", "a", "t", "u", "s">>}
     /\ IsTextOrNothing(PositionInput(caller, raw))) =>
        /\ out.kind = "value"
        /\ out.v.position = RefStatus(PositionInput(caller, raw))

\* the crypto pipeline reads 'Open position closed' as Open
C27_Witness ==
    /\ pc = "assembled"
    /\ caller = "crypto"
    /\ raw = Obj(<<"s", "t", "a", "t", "u", "s">> :> Str(<<"O", "p", "e", "n", " ", "p", "o", "s", "i", "t", "i", "o", "n", " ", "c", "l", "o", "s", "e", "d">>))
    /\ out.kind = "value"
    /\ out.v.position = Str(<<"O", "p", "e", "n">>)

\* C25: getGoldPrice degrades in order and never raises: the second
\* provider is asked exactly when the first one failed, a first provider
\* that succeeded gives the quote without a second request, and the static
\* values (2050 / 15.50 / 0.76) are returned only after both have failed.
C25_GoldDegradesInOrder ==
    legPc["gold"] = "settled" =>
        /\ legOut["gold"].kind = "value"
        /\ Len(legSeen["gold"]) = (IF ProviderFailed("gold", 1, legSeen["gold"][1]) THEN 2 ELSE 1)
        /\ legOut["gold"].v = GoldFallback =>
              /\ Len(legSeen["gold"]) = 2
              /\ ProviderFailed("gold", 2, legSeen["gold"][2])

\* the entry of a coin in the answer of the crypto provider
CoinOf(fetched, name) ==
    IF fetched.kind = "json" /\ fetched.data.t = "object" THEN GetProp(fetched.data, name)
    ELSE Undef

HoldsBothCoins(fetched) ==
    CoinOf(fetched, <<"b", "i", "t", "c", "o", "i", "n">>).t = "object" /\ CoinOf(fetched, <<"e", "t", "h", "e", "r", "e", "u", "m">>).t = "object"

\* C30: getCryptoPrices is all or nothing: when the response holds both
\* coins both prices are those of the response, and in every other case,
\* a response with one coin missing included, both quotes are the static
\* ones; never one live quote next to one static quote.
C30_CryptoAllOrNothing ==
    legPc["crypto"] = "settled" =>
        /\ legOut["crypto"].kind = "value"
        /\ IF HoldsBothCoins(legSeen["crypto"][1])
           THEN /\ legOut["crypto"].v.btc.price = GetProp(CoinOf(legSeen["crypto"][1], <<"b", "i", "t", "c", "o", "i", "n">>), <<"u", "s", "d">>)
                /\ legOut["crypto"].v.eth.price = GetProp(CoinOf(legSeen["crypto"][1], <<"e", "t", "h", "e", "r", "e", "u", "m">>), <<"u", "s", "d">>)
           ELSE legOut["crypto"].v = CryptoFallback

\* the response holds the bitcoin quote only: both quotes are the static ones
C30_Witness ==
    /\ legPc["crypto"] = "settled"
    /\ CoinOf(legSeen["crypto"][1], <<"b", "i", "t", "c", "o", "i", "n">>).t = "object"
    /\ CoinOf(legSeen["crypto"][1], <<"e", "t", "h", "e", "r", "e", "u", "m">>) = Undef
    /\ legOut["crypto"].v.btc.price = IntNum(43250)
    /\ legOut["crypto"].v.eth.price = IntNum(2650)

-----------------------------------------------------------------------------
(* The generic error of retryWithBackoff *)

\* C29: a call of retryWithBackoff with maxRetries >= 1 invokes the
\* operation at least once and, when it fails, fails with the error the
\* operation raised last, never with 'Max retries exceeded'; with
\* maxRetries <= 0 the operation is never invoked and the call fails with
\* 'Max retries exceeded'.
C29_GenericErrorOnlyWithoutAttempts ==
    (pc = "settled" /\ caller = "direct") =>
        IF maxRetries >= 1
        THEN /\ calls >= 1
             /\ settled # Thrown(ErrMaxRetries)
             /\ settled.kind = "error" =>
                   /\ errors # <<>>
                   /\ settled.e = errors[Len(errors)]
        ELSE /\ calls = 0
             /\ settled = Thrown(ErrMaxRetries)

\* a call with maxRetries 0 has failed without a single invocation
C29_Witness ==
    /\ pc = "settled"
    /\ caller = "direct"
    /\ maxRetries = 0
    /\ calls = 0
    /\ errors = <<>>
    /\ settled = Thrown(ErrMaxRetries)

-----------------------------------------------------------------------------
(* Claims about the order of the extraction strategies *)

RECURSIVE FoundTexts(_, _)
\* the texts of the patterns that matched, in the order of the patterns
FoundTexts(matches, k) ==
    IF k > Len(matches) THEN <<>>
    ELSE IF matches[k].found
         THEN <<Trim(GroupOrWhole(matches[k]))>> \o FoundTexts(matches, k + 1)
         ELSE FoundTexts(matches, k + 1)

\* what the strategies read, in their order: the whole text with the fence
\* markers stripped, the contents of a fenced block, the text from the first
\* '{' to the last '}'
Candidates(text) == <<CleanText(text)>> \o FoundTexts(PatternMatches(text), 1)

NothingParsed == [ok |-> FALSE]

RECURSIVE FirstParsed(_, _)
\* JSON.parse of the first of the texts that is the text of a JSON value
FirstParsed(cands, k) ==
    IF k > Len(cands) THEN NothingParsed
    ELSE IF JsonParse(cands[k]).ok THEN JsonParse(cands[k])
    ELSE FirstParsed(cands, k + 1)

\* the call answers with what the first strategy that parsed read: the record
\* assembled from it, a record whenever it read a JSON object; the call fails
\* as for an unreadable image when no strategy parsed
AnswersWithFirstParsed(variant, env, r, p) ==
    IF ~p.ok THEN r = Thrown(ErrUnclear(variant))
    ELSE /\ r = OuterCatch(variant, Assemble(variant, env, p.v))
         /\ p.v.t = "object" => r.kind = "value"

\* the same of the earlier version, which returns the parsed value as it is
EarlierAnswersWithFirstParsed(r, p) ==
    IF ~p.ok THEN r = Thrown(ErrUnclearForex) ELSE r = Returned(p.v)

\* C28: the strategies are tried in their order (the whole text with the
\* fence markers stripped, the contents of a fenced block, the text from the
\* first '{' to the last '}'); the call returns what the first strategy that
\* parses read, and the extraction fails only when none of them parses.
C28_FirstParsingStrategyWins ==
    (pc = "replied" /\ settled.kind = "value") =>
        IF caller = "earlier"
        THEN EarlierAnswersWithFirstParsed(reply, FirstParsed(Candidates(settled.v), 1))
        ELSE AnswersWithFirstParsed(caller, host, reply,
                                    FirstParsed(Candidates(settled.v), 1))

-----------------------------------------------------------------------------
(* processMessage and the HTTP chat handler *)

fallbackResponses ==
    <<<<"I", "'", "m", " ", "e", "x", "p", "e", "r", "i", "e", "n", "c", "i", "n", "g", " ", "h", "i", "g", "h", " ", "d", "e", "m", "a", "n", "d", " ", "r", "i", "g", "h", "t", " ", "n", "o", "w", ".", " ", "L", "e", "t", " ", "m", "e", " ", "h", "e", "l", "p", " ", "y", "o", "u", " ", "w", "i", "t", "h", " ", "y", "o", "u", "r", " ", "t", "r", "a", "d", "i", "n", "g", " ", "a", "n", "a", "l", "y", "s", "i", "s", " ", "i", "n", " ", "a", " ", "m", "o", "m", "e", "n", "t", "!", " ">> \o <<"U+1F4CA">>,
      <<"M", "y", " ", "s", "y", "s", "t", "e", "m", "s", " ", "a", "r", "e", " ", "b", "u", "s", "y", " ", "p", "r", "o", "c", "e", "s", "s", "i", "n", "g", " ", "o", "t", "h", "e", "r", " ", "r", "e", "q", "u", "e", "s", "t", "s", ".", " ", "M", "e", "a", "n", "w", "h", "i", "l", "e", ",", " ", "f", "e", "e", "l", " ", "f", "r", "e", "e", " ", "t", "o", " ", "a", "d", "d", " ", "y", "o", "u", "r", " ", "t", "r", "a", "d", "e", "s", " ", "m", "a", "n", "u", "a", "l", "l", "y", "!", " ">> \o <<"U+1F4AA">>,
      <<"I", "'", "m", " ", "t", "e", "m", "p", "o", "r", "a", "r", "i", "l", "y", " ", "u", "n", "a", "v", "a", "i", "l", "a", "b", "l", "e", ",", " ", "b", "u", "t", " ", "y", "o", "u", "r", " ", "t", "r", "a", "d", "i", "n", "g", " ", "d", "a", "t", "a", " ", "i", "s", " ", "s", "a", "f", "e", ".", " ", "T", "r", "y", " ", "a", "g", "a", "i", "n", " ", "i", "n", " ", "a", " ", "f", "e", "w", " ", "m", "o", "m", "e", "n", "t", "s", "!", " ">> \o <<"U+1F504">>,
      <<"H", "i", "g", "h", " ", "t", "r", "a", "f", "f", "i", "c", " ", "d", "e", "t", "e", "c", "t", "e", "d", "!", " ", "W", "h", "i", "l", "e", " ", "I", " ", "r", "e", "c", "o", "v", "e", "r", ",", " ", "y", "o", "u", " ", "c", "a", "n", " ", "s", "t", "i", "l", "l", " ", "u", "s", "e", " ", "a", "l", "l", " ", "o", "t", "h", "e", "r", " ", "f", "e", "a", "t", "u", "r", "e", "s", " ", "o", "f", " ", "t", "h", "e", " ", "p", "l", "a", "t", "f", "o", "r", "m", "!", " ">> \o <<"U+26A1">>>>

\* Math.floor(Math.random() * this.fallbackResponses.length)
FallbackDraws == 0..(Len(fallbackResponses) - 1)

getRandomFallback(draw) == fallbackResponses[draw + 1]

TroubleText == <<"I", "'", "m", " ", "h", "a", "v", "i", "n", "g", " ", "t", "r", "o", "u", "b", "l", "e", " ", "p", "r", "o", "c", "e", "s", "s", "i", "n", "g", " ", "y", "o", "u", "r", " ", "m", "e", "s", "s", "a", "g", "e", " ", "r", "i", "g", "h", "t", " ", "n", "o", "w", ".", " ", "P", "l", "e", "a", "s", "e", " ", "t", "r", "y", " ", "a", "g", "a", "i", "n", " ", "i", "n", " ", "a", " ", "m", "o", "m", "e", "n", "t", "!", " ">> \o <<"U+1F916">>

SorryText == <<"S", "o", "r", "r", "y", ",", " ", "I", " ", "c", "o", "u", "l", "d", " ", "n", "o", "t", " ", "p", "r", "o", "c", "e", "s", "s", " ", "y", "o", "u", "r", " ", "r", "e", "q", "u", "e", "s", "t", ".">>

FailedChatText == <<"F", "a", "i", "l", "e", "d", " ", "t", "o", " ", "p", "r", "o", "c", "e", "s", "s", " ", "c", "h", "a", "t", " ", "r", "e", "q", "u", "e", "s", "t">>

\* what the model may answer a chat message with
ChatAnswers == {<<"Y", "o", "u", "r", " ", "w", "i", "n", " ", "r", "a", "t", "e", " ", "i", "s", " ", "6", "0", "%", ".">>, <<"G", "o", "l", "d", " ", "i", "s", " ", "u", "p", " ", "t", "o", "d", "a", "y", ".">>}

\* what a read of the repository settles with: rows, an error object in the
\* result, or a rejection
ReadOutcomes == {"data", "error", "rejected"}

\* what fetchMarketData met; it resolves in each case, with no results
\* after a failure
EnrichOutcomes == {"results", "empty", "failed"}

ErrNetwork == MkError(TRUE, <<"e", "r", "r", "o", "r", " ", "s", "e", "n", "d", "i", "n", "g", " ", "r", "e", "q", "u", "e", "s", "t", " ", "f", "o", "r", " ", "u", "r", "l">>, 0)
ErrFetchSessions == MkError(TRUE, <<"F", "a", "i", "l", "e", "d", " ", "t", "o", " ", "f", "e", "t", "c", "h", " ", "s", "e", "s", "s", "i", "o", "n", "s">>, 0)
ErrFetchTrades == MkError(TRUE, <<"F", "a", "i", "l", "e", "d", " ", "t", "o", " ", "f", "e", "t", "c", "h", " ", "t", "r", "a", "d", "e", "s">>, 0)
ErrGeminiFailed == MkError(TRUE, <<"G", "e", "m", "i", "n", "i", " ", "A", "P", "I", " ", "r", "e", "q", "u", "e", "s", "t", " ", "f", "a", "i", "l", "e", "d">>, 0)

\* the reads and the enrichment of processMessage, in the order of the code:
\* the steps after a rejected read do not run
ServiceReadings ==
    {[sessions |-> "rejected", trades |-> "skipped", enrichment |-> "skipped"]}
    \cup {[sessions |-> s, trades |-> "rejected", enrichment |-> "skipped"] :
            s \in {"data", "error"}}
    \cup {[sessions |-> s, trades |-> t, enrichment |-> m] :
            s \in {"data", "error"}, t \in {"data", "error"}, m \in EnrichOutcomes}

\* the catch block of processMessage
processMessageCatch(e, draw) ==
    IF IsQuotaError(e) THEN Returned(getRandomFallback(draw)) ELSE Returned(TroubleText)

\* what processMessage resolves with, given how retryWithBackoff settled
processMessageOutcome(retried, draw) ==
    IF retried.kind = "value" THEN Returned(retried.v)
    ELSE processMessageCatch(retried.e, draw)

\* processMessage begins: the two reads, fetchMarketData, the prompt, then
\* retryWithBackoff with its default parameters; an error in the result of a
\* read is not looked at
ChatStartWith(readings) ==
    /\ pc = "start"
    /\ caller = "chat"
    /\ \E seen \in readings :
          /\ chatSeen' = seen
          /\ IF "rejected" \in {seen.sessions, seen.trades}
             THEN /\ settled' = Thrown(ErrNetwork)
                  /\ pc' = "settled"
                  /\ UNCHANGED <<attempt, calls>>
             ELSE EnterLoop(1)
    /\ UNCHANGED <<caller, maxRetries, baseDelay, sleeps, errors, reply, raw, out,
                   host, marketVars, searchVars, parked, response>>

ChatStart == ChatStartWith(ServiceReadings)

\* model.generateContent resolves with a response
ChatModelResolves ==
    /\ pc = "awaitOperation"
    /\ caller = "chat"
    /\ \E text \in ChatAnswers : settled' = Returned(text)
    /\ pc' = "settled"
    /\ UNCHANGED <<caller, maxRetries, baseDelay, attempt, calls, sleeps, errors,
                   reply, raw, out, host, marketVars, searchVars, parked, chatSeen, response>>

\* the text of the response is returned, or the error caught
ChatSettle ==
    /\ pc = "settled"
    /\ caller = "chat"
    /\ \E draw \in FallbackDraws : reply' = processMessageOutcome(settled, draw)
    /\ pc' = "replied"
    /\ UNCHANGED <<caller, maxRetries, baseDelay, attempt, calls, sleeps, errors,
                   settled, raw, out, host, marketVars, searchVars, parked, chatSeen, response>>

\* how the body of the request reads
BodyOutcomes == {"json", "malformed"}

\* the steps of the handler up to the model request, in the order of the
\* code: req.json(), fetchMarketData, the sessions, the trades
HandlerReadings ==
    {[body |-> "malformed", enrichment |-> "skipped", sessions |-> "skipped", trades |-> "skipped"]}
    \cup {[body |-> "json", enrichment |-> m, sessions |-> s, trades |-> "skipped"] :
            m \in EnrichOutcomes, s \in {"error", "rejected"}}
    \cup {[body |-> "json", enrichment |-> m, sessions |-> "data", trades |-> t] :
            m \in EnrichOutcomes, t \in ReadOutcomes}

\* the error the handler throws before the model request, if any
HandlerThrows(seen) ==
    IF seen.body = "malformed" THEN Thrown(ErrSyntax)
    ELSE IF seen.sessions = "error" THEN Thrown(ErrFetchSessions)
    ELSE IF seen.trades = "error" THEN Thrown(ErrFetchTrades)
    ELSE IF "rejected" \in {seen.sessions, seen.trades} THEN Thrown(ErrNetwork)
    ELSE Pending

\* the handler begins: the body of the request, fetchMarketData, the reads
HttpChatStart ==
    /\ pc = "start"
    /\ caller = "chatHttp"
    /\ \E seen \in HandlerReadings :
          /\ chatSeen' = seen
          /\ settled' = HandlerThrows(seen)
          /\ pc' = IF HandlerThrows(seen) = Pending THEN "awaitModel" ELSE "settled"
    /\ UNCHANGED <<caller, maxRetries, baseDelay, attempt, calls, sleeps, errors,
                   reply, raw, out, host, marketVars, searchVars, parked, response>>

\* what the request to the model API ends with: fetch rejects, a status that
\* is not ok, a body that is not JSON, a body without candidates, a text
ModelRequestOutcomes ==
    {Thrown(ErrNetwork), Thrown(ErrGeminiFailed), Thrown(ErrSyntax), Returned(SorryText)}
    \cup {Returned(text) : text \in ChatAnswers}

\* the request to the model API settles
HttpModelSettles ==
    /\ pc = "awaitModel"
    /\ caller = "chatHttp"
    /\ settled' \in ModelRequestOutcomes
    /\ calls' = calls + 1
    /\ pc' = "settled"
    /\ UNCHANGED <<caller, maxRetries, baseDelay, attempt, sleeps, errors,
                   reply, raw, out, host, marketVars, searchVars, parked, chatSeen, response>>

\* the response of the handler: the message, or the catch block
HttpChatOutcome(tried) ==
    IF tried.kind = "value"
    THEN Returned([status |-> 200, message |-> tried.v])
    ELSE Returned([status |-> 500, error |-> FailedChatText,
                   details |-> IF tried.e.hasMessage THEN Str(tried.e.message) ELSE Undef])

HttpChatSettle ==
    /\ pc = "settled"
    /\ caller = "chatHttp"
    /\ reply' = HttpChatOutcome(settled)
    /\ pc' = "replied"
    /\ UNCHANGED <<caller, maxRetries, baseDelay, attempt, calls, sleeps, errors,
                   settled, raw, out, host, marketVars, searchVars, parked, chatSeen, response>>

InitChat ==
    /\ caller \in {"chat", "chatHttp"}
    /\ host = DefaultHost
    /\ maxRetries = DefaultMaxRetries
    /\ baseDelay = DefaultBaseDelay
    /\ attempt = 0
    /\ pc = "start"
    /\ calls = 0
    /\ sleeps = <<>>
    /\ errors = <<>>
    /\ settled = Pending
    /\ reply = Pending
    /\ raw = NoObject
    /\ out = Pending
    /\ response = NoResponse
    /\ MarketIdle
    /\ SearchIdle
    /\ ChatIdle
    /\ NoSecondCall

NextChat ==
    \/ ChatStart
    \/ ChatModelResolves
    \/ OperationRejects
    \/ TimerFires
    \/ ChatSettle
    \/ HttpChatStart
    \/ HttpModelSettles
    \/ HttpChatSettle

SpecChat == InitChat /\ [][NextChat]_vars

-----------------------------------------------------------------------------
(* Claims about the chat entry points *)

\* the texts written in the code for a chat that cannot be answered
FixedChatTexts ==
    {fallbackResponses[i] : i \in 1..Len(fallbackResponses)}
    \cup {TroubleText, SorryText, FailedChatText}

\* the texts a reply carries to the user
ReplyTexts(r) ==
    IF caller = "chat" THEN {r.v}
    ELSE IF r.v.status = 200 THEN {r.v.message}
    ELSE {r.v.error} \cup (IF r.v.details = Undef THEN {} ELSE {r.v.details.s})

\* C21: a chat request that failed (a read of the repository, the request
\* body or the model call threw) is answered with fixed texts of the
\* code only, and no text of the reply holds the message of the error.
C21_ChatNeverShowsError ==
    (pc = "replied" /\ caller \in {"chat", "chatHttp"} /\ settled.kind = "error") =>
        /\ ReplyTexts(reply) \subseteq FixedChatTexts
        /\ \A t \in ReplyTexts(reply) :
              settled.e.hasMessage => ~Includes(t, settled.e.message)

-----------------------------------------------------------------------------
(* Two calls on the one service instance *)

\* the local variables and parameters of the call that runs; the class has
\* no field that a call writes
Locals(id) ==
    [id |-> id, caller |-> caller, maxRetries |-> maxRetries, baseDelay |-> baseDelay,
     attempt |-> attempt, pc |-> pc, calls |-> calls, sleeps |-> sleeps,
     errors |-> errors, settled |-> settled, reply |-> reply, response |-> response,
     chatSeen |-> chatSeen]

\* mutant: the attempt counter is a field of the instance, one for all calls
SwitchSharedCounter ==
    /\ parked # NoCall
    /\ parked' = [Locals(3 - parked.id) EXCEPT !.attempt = parked.attempt]
    /\ caller' = parked.caller
    /\ maxRetries' = parked.maxRetries
    /\ baseDelay' = parked.baseDelay
    /\ attempt' = attempt
    /\ pc' = parked.pc
    /\ calls' = parked.calls
    /\ sleeps' = parked.sleeps
    /\ errors' = parked.errors
    /\ settled' = parked.settled
    /\ reply' = parked.reply
    /\ response' = parked.response
    /\ chatSeen' = parked.chatSeen
    /\ UNCHANGED <<raw, out, host, marketVars, searchVars>>

\* the call that runs waits at an await and the event loop resumes the other
\* call: each call goes on with its own local variables
Switch ==
    /\ parked # NoCall
    /\ parked' = Locals(3 - parked.id)
    /\ caller' = parked.caller
    /\ maxRetries' = parked.maxRetries
    /\ baseDelay' = parked.baseDelay
    /\ attempt' = parked.attempt
    /\ pc' = parked.pc
    /\ calls' = parked.calls
    /\ sleeps' = parked.sleeps
    /\ errors' = parked.errors
    /\ settled' = parked.settled
    /\ reply' = parked.reply
    /\ response' = parked.response
    /\ chatSeen' = parked.chatSeen
    /\ UNCHANGED <<raw, out, host, marketVars, searchVars>>

\* the entry points two calls may be of
PairCallers == {"forex", "crypto", "chat"}

\* the responses and the readings looked at when two calls run
PairResponses ==
    {[body |-> <<"{", "\"", "n", "o", "t", "e", "\"", ":", "1", "}">>, wrap |-> "jsonFence"],
     [body |-> <<"n", "o", " ", "t", "a", "b", "l", "e", " ", "h", "e", "r", "e">>, wrap |-> "bare"]}

PairReadings ==
    {[sessions |-> "data", trades |-> "error", enrichment |-> "results"],
     [sessions |-> "rejected", trades |-> "skipped", enrichment |-> "skipped"]}

PairResolvesWithResponse == ResolvesWithResponse(PairResponses)

PairChatStart == ChatStartWith(PairReadings)

\* a call that has not begun
NewCall(id, c) ==
    [id |-> id, caller |-> c, maxRetries |-> DefaultMaxRetries,
     baseDelay |-> DefaultBaseDelay, attempt |-> 0, pc |-> "start", calls |-> 0,
     sleeps |-> <<>>, errors |-> <<>>, settled |-> Pending, reply |-> Pending,
     response |-> NoResponse, chatSeen |-> NoChat]

InitPair ==
    /\ caller \in PairCallers
    /\ host = DefaultHost
    /\ maxRetries = DefaultMaxRetries
    /\ baseDelay = DefaultBaseDelay
    /\ attempt = 0
    /\ pc = "start"
    /\ calls = 0
    /\ sleeps = <<>>
    /\ errors = <<>>
    /\ settled = Pending
    /\ reply = Pending
    /\ raw = NoObject
    /\ out = Pending
    /\ response = NoResponse
    /\ MarketIdle
    /\ SearchIdle
    /\ ChatIdle
    /\ parked \in {NewCall(2, c) : c \in PairCallers}

NextPair ==
    \/ AnalyzeStart
    \/ PairResolvesWithResponse
    \/ AnalyzeSettle
    \/ PairChatStart
    \/ ChatModelResolves
    \/ ChatSettle
    \/ OperationRejects
    \/ TimerFires
    \/ Switch

SpecPair == InitPair /\ [][NextPair]_vars

-----------------------------------------------------------------------------
(* Claims about calls that run interleaved *)

\* was the k-th error of the call one that is retried
WasRetried(call, k) == k < call.maxRetries /\ IsQuotaError(call.errors[k])

\* the number of sleeps of a call that met these errors
SleepsDue(call) ==
    IF call.errors = <<>> THEN 0
    ELSE IF WasRetried(call, Len(call.errors)) THEN Len(call.errors)
    ELSE Len(call.errors) - 1

\* the number of invocations of a call that met these errors
CallsDue(call) ==
    IF call.pc = "awaitOperation" \/ (call.settled.kind = "value" /\ call.attempt > 0)
    THEN Len(call.errors) + 1
    ELSE Len(call.errors)

\* the result of a call that is over, from what the call itself met
ResultDue(call, env) ==
    IF call.caller = "chat"
    THEN {processMessageOutcome(call.settled, draw) : draw \in FallbackDraws}
    ELSE {AnalysisOutcome(call.caller, env, call.settled)}

\* the call stands where it would stand running alone with the errors and
\* the response it met itself: every error but the last was a retried one,
\* one sleep of the delay of its attempt follows each retried error, the
\* model was invoked once per error and once more when the call awaits or
\* has the response, and the result is that of its own last error or response
AsAlone(call, env) ==
    /\ \A k \in 1..(Len(call.errors) - 1) : WasRetried(call, k)
    /\ call.sleeps = [k \in 1..SleepsDue(call) |-> RetryDelay(call.baseDelay, k, 0)]
    /\ call.calls = CallsDue(call)
    /\ call.attempt = call.calls
    /\ (call.settled.kind = "error" /\ call.errors # <<>>) =>
          /\ call.settled = Thrown(call.errors[Len(call.errors)])
          /\ ~WasRetried(call, Len(call.errors))
    /\ (call.settled.kind = "value" /\ call.caller # "chat") =>
          call.settled.v = Wrap(call.response.body, call.response.wrap)
    /\ call.pc = "replied" => call.reply \in ResultDue(call, env)
    /\ call.pc # "replied" => call.reply = Pending

\* C24: when two calls (analyzeScreenshot, analyzeCryptoScreenshot,
\* processMessage, in any mix) run interleaved on the one instance, each has
\* the invocations, the sleeps and the result it has when it runs alone with
\* the errors and the response it met, whatever the other call does.
C24_CallsDoNotInterfere ==
    parked # NoCall => (AsAlone(Locals(3 - parked.id), host) /\ AsAlone(parked, host))

\* both calls are in the middle of their retries, each with its own count
C24_Witness ==
    /\ parked # NoCall
    /\ caller = "chat"
    /\ pc = "sleeping"
    /\ attempt = 1
    /\ parked.caller = "forex"
    /\ parked.pc = "awaitOperation"
    /\ parked.attempt = 3
=============================================================================
